---- MODULE Spec2Model ----
(***************************************************************************)
(* Deep-research agent: the plan / execute / evaluate / report state       *)
(* machine of agents/deep-research (graph.py and nodes/), the HITL         *)
(* coordinator of libs/agent-core (core/hitl.py) with its two feedback     *)
(* handlers (nodes/hitl_handlers.py) and the session API (app.py).         *)
(* One session is modelled.  The variables are the fields of the persisted *)
(* ResearchAgentState plus the position of the compiled graph (next node,  *)
(* whether a run is active, last writer).                                  *)
(***************************************************************************)
EXTENDS Integers, Sequences, FiniteSets, TLC

VARIABLES
    status,              \* BaseAgentState.status
    research_plan,       \* ResearchAgentState.research_plan (NoPlan = None)
    current_step_index,  \* ResearchAgentState.current_step_index
    search_results,      \* step ids that hold at least one SearchResult
    extracted_insights,  \* dict step_id -> insight
    final_report,        \* "none" or "report"
    pending_hitl_event,  \* HITLEvent or NoEvent
    human_feedback,      \* last feedback payload or NoFeedback
    error_message,       \* sequence of words, << >> = None
    config,              \* ResearchConfig approval flags
    pc,                  \* next node of the compiled graph
    running,             \* an astream run of the session is active
    supersteps,          \* nodes the current run has executed
    last_node,           \* last node that wrote the state (as_node of aupdate_state)
    planner_input,       \* modification notes read by the last planner call
    executed_since_fb,   \* the execute node ran since the last feedback (or start)
    fb_count,            \* feedbacks submitted so far
    last_fb,             \* last feedback, where it was submitted, whether a plan existed
    invocation,          \* last invocation of a wrapped function on its own
    store,               \* the checkpointer of the server: thread id -> checkpoint
    tasks,               \* the astream runs alive on the server
    hist                 \* last operation with its inputs and pre-state

vars == <<status, research_plan, current_step_index, search_results,
          extracted_insights, final_report, pending_hitl_event,
          human_feedback, error_message, config, pc, running, supersteps,
          last_node,
          planner_input, executed_since_fb, fb_count,
          last_fb, invocation, store, tasks, hist>>

----------------------------------------------------------------------------
(* Bounds of the model *)

MaxRoots == 1       \* steps a planner reply holds at most
MaxCands == 2       \* candidate sub-steps a judgment reply holds at most
MaxPlanLen == 3     \* longest plan the judgment replies may build
MaxFeedbacks == 1   \* feedbacks a human submits at most
ExpandRoots == 8    \* steps of a planner reply under full expansion
ExpandCands == 2    \* candidates of every judgment reply under full expansion
ScenarioRoots == 2  \* steps a planner reply holds at most in the scenario runs
ScenarioCands == 1  \* candidates a judgment reply holds at most in the scenario runs
ScenarioLen == 3    \* longest plan built in the scenario runs
MaxInsightIds == 3  \* step ids insights are added for
MaxMiddlewares == 3 \* middlewares registered at most
MaxRuns == 2        \* astream runs alive for one session at most

----------------------------------------------------------------------------
(* Program constants *)

MAX_RECURSION_DEPTH == 3
BreakerMaxDepth == 5
RecursionLimit == 100
DefaultDepth == 0

----------------------------------------------------------------------------
(* Data model *)

NoPlan == [exists |-> FALSE, steps |-> << >>, user_modified |-> FALSE,
           modification_notes |-> "none"]

NoEvent == [event_type |-> "none", requires_response |-> FALSE]

NoFeedback == [action |-> "none", notes |-> "none", modified |-> FALSE]

HITLEvent(event_type) == [event_type |-> event_type, requires_response |-> TRUE]

ResearchStep(step_id, depth) ==
    [step_id |-> step_id, depth |-> depth, status |-> "pending",
     error_message |-> << >>]

ResearchPlan(steps) ==
    [exists |-> TRUE, steps |-> steps, user_modified |-> FALSE,
     modification_notes |-> "none"]

AgentStatus == {"planning", "plan_review", "executing", "final_review",
                "completed", "error"}

StepStatus == {"pending", "executing", "completed", "failed"}

\* Messages are sequences of words, so that "contains" is computed.
NoMessage == << >>
MsgPlanRejected == <<"Research", "plan", "rejected", "by", "user">>
MsgReportRejected == <<"Final", "report", "rejected", "by", "user">>
MsgApiRejected == <<"Rejected", "by", "user">>
MsgPlanFailed == <<"Failed", "to", "generate", "research", "plan">>
MsgReportFailed == <<"Failed", "to", "generate", "final", "report">>
\* str(e) of a step's failure: some text, or the empty string
ErrorText == <<"error", "text">>
BlankText == << >>

\* Python's `pat in msg` on the word level
Contains(msg, pat) ==
    \E i \in 0..(Len(msg) - Len(pat)) :
        \A j \in 1..Len(pat) : msg[i + j] = pat[j]

\* faulty variant: an existing entry is kept (the first write wins)
DictSetFirst(d, k, v) == [x \in (DOMAIN d) \cup {k} |-> IF x \in DOMAIN d THEN d[x] ELSE v]

\* dict[key] = value
DictSet(d, k, v) == [x \in (DOMAIN d) \cup {k} |-> IF x = k THEN v ELSE d[x]]

EmptyDict == [x \in {} |-> "insight"]

\* ResearchPlan.get_current_step: the cursor names a step
HasCurrentStep(s) ==
    /\ s.research_plan.exists
    /\ 0 <= s.current_step_index
    /\ s.current_step_index < Len(s.research_plan.steps)

\* ResearchAgentState.get_current_step (Python index i is position i + 1)
get_current_step(s) == s.research_plan.steps[s.current_step_index + 1]

\* BaseAgentState.set_error
set_error(s, msg) == [s EXCEPT !.status = "error", !.error_message = msg]

\* faulty variant: the cursor also moves off the last step
move_to_next_step_past(s) ==
    IF s.research_plan.exists /\ s.current_step_index < Len(s.research_plan.steps)
    THEN [state |-> [s EXCEPT !.current_step_index = @ + 1], result |-> TRUE]
    ELSE [state |-> s, result |-> FALSE]

\* ResearchAgentState.move_to_next_step: the state it leaves and what it returns
move_to_next_step(s) ==
    IF s.research_plan.exists /\ s.current_step_index < Len(s.research_plan.steps) - 1
    THEN [state |-> [s EXCEPT !.current_step_index = @ + 1], result |-> TRUE]
    ELSE [state |-> s, result |-> FALSE]

\* BaseAgentState.complete / ResearchAgentState.complete_research
complete_research(s) == [s EXCEPT !.status = "completed"]

----------------------------------------------------------------------------
(* Snapshot serialization: pydantic model_dump / model validation.  A dump *)
(* holds the declared fields; validation reads each declared field and     *)
(* falls back to the field's default when the dump lacks it.               *)

\* d[k], or the declared default
Field(d, k, default) == IF k \in DOMAIN d THEN d[k] ELSE default

\* ResearchStep.model_dump
step_dump(st) ==
    [step_id |-> st.step_id, depth |-> st.depth, status |-> st.status,
     error_message |-> st.error_message]

\* ResearchStep validated from a dump
step_validate(d) ==
    [step_id |-> d.step_id,
     depth |-> Field(d, "depth", DefaultDepth),
     status |-> Field(d, "status", "pending"),
     error_message |-> Field(d, "error_message", << >>)]

\* faulty variant: the dump loses the plan
plan_dump_dropped(p) == NoPlan

\* ResearchPlan.model_dump (None stays None)
plan_dump(p) ==
    IF ~p.exists THEN NoPlan
    ELSE [exists |-> TRUE,
          steps |-> [i \in 1..Len(p.steps) |-> step_dump(p.steps[i])],
          user_modified |-> p.user_modified,
          modification_notes |-> p.modification_notes]

\* ResearchPlan validated from a dump
plan_validate(d) ==
    IF ~Field(d, "exists", FALSE) THEN NoPlan
    ELSE [exists |-> TRUE,
          steps |-> [i \in 1..Len(d.steps) |-> step_validate(d.steps[i])],
          user_modified |-> Field(d, "user_modified", FALSE),
          modification_notes |-> Field(d, "modification_notes", "none")]

\* HITLEvent.model_dump and validation (None stays None)
event_dump(e) ==
    IF e = NoEvent THEN NoEvent
    ELSE [event_type |-> e.event_type, requires_response |-> e.requires_response]

event_validate(d) ==
    IF d = NoEvent THEN NoEvent
    ELSE [event_type |-> d.event_type,
          requires_response |-> Field(d, "requires_response", TRUE)]

\* ResearchAgentState.model_dump(): every declared field
model_dump(s) ==
    [status |-> s.status,
     research_plan |-> plan_dump(s.research_plan),
     current_step_index |-> s.current_step_index,
     search_results |-> s.search_results,
     extracted_insights |-> s.extracted_insights,
     final_report |-> s.final_report,
     pending_hitl_event |-> event_dump(s.pending_hitl_event),
     human_feedback |-> s.human_feedback,
     error_message |-> s.error_message]

\* ResearchAgentState validated from a dump (the state schema of the graph)
model_validate(d) ==
    [status |-> Field(d, "status", "planning"),
     research_plan |-> plan_validate(Field(d, "research_plan", NoPlan)),
     current_step_index |-> Field(d, "current_step_index", 0),
     search_results |-> Field(d, "search_results", {}),
     extracted_insights |-> Field(d, "extracted_insights", << >>),
     final_report |-> Field(d, "final_report", "none"),
     pending_hitl_event |-> event_validate(Field(d, "pending_hitl_event", NoEvent)),
     human_feedback |-> Field(d, "human_feedback", NoFeedback),
     error_message |-> Field(d, "error_message", << >>)]

\* ResearchConfig.model_dump and validation
config_dump(cfg) ==
    [require_plan_approval |-> cfg.require_plan_approval,
     require_final_approval |-> cfg.require_final_approval]

config_validate(d) ==
    [require_plan_approval |-> Field(d, "require_plan_approval", TRUE),
     require_final_approval |-> Field(d, "require_final_approval", FALSE)]

----------------------------------------------------------------------------
(* Plan generation node: nodes/plan_generation.py *)

\* steps built from the planner reply: ids step_1 .. step_n, default depth
PlannedSteps(n) == [k \in 1..n |-> ResearchStep(<<k>>, DefaultDepth)]

\* faulty variant: the planner prompt never carries the notes
PlannerFeedbackDropped(s) == "none"

\* what the planner prompt receives as feedback context (lines 63-84)
PlannerFeedbackContext(s) ==
    IF s.research_plan.exists /\ s.research_plan.modification_notes # "none"
    THEN s.research_plan.modification_notes
    ELSE "none"

\* generate_plan: ok = the LLM reply parsed, n = number of steps in it
generate_plan(s, ok, n) ==
    IF ok
    THEN [s EXCEPT !.research_plan = ResearchPlan(PlannedSteps(n)),
                   !.current_step_index = 0,
                   !.status = "plan_review",
                   !.pending_hitl_event = HITLEvent("plan_approval")]
    ELSE set_error(s, MsgPlanFailed)

----------------------------------------------------------------------------
(* Execute node: nodes/search_execution.py, agent_core/core/nodes.py *)

ExecOutcomes == {"ok", "gather_failed", "gather_raised", "no_results",
                 "process_failed"}

\* BaseWorkerNode.update_step_status on the step at the cursor; the error
\* text is stored only when it is truthy (`if error and ...`)
update_step_status(s, st, error) ==
    [s EXCEPT !.research_plan.steps[s.current_step_index + 1].status = st,
              !.research_plan.steps[s.current_step_index + 1].error_message =
                  IF error # << >> THEN error ELSE @]

\* ExtractedInsight: the step it belongs to and its content
ExtractedInsight(step_id, content) == [step_id |-> step_id, content |-> content]

\* ResearchAgentState.add_insight
add_insight(s, insight) ==
    [s EXCEPT !.extracted_insights = DictSet(@, insight.step_id, insight.content)]

\* ResearchAgentState.add_search_result (for every gathered item)
add_search_result(s, step_id) ==
    [s EXCEPT !.search_results = @ \cup {step_id}]

\* faulty variant: an empty gather result is handed to the processor
execute_task_node_processing(s, outcome) ==
    IF ~HasCurrentStep(s) THEN s
    ELSE LET step_id == get_current_step(s).step_id
             s1 == [update_step_status(s, "executing", << >>)
                        EXCEPT !.status = "executing"]
         IN  IF outcome \in {"gather_failed", "gather_raised", "process_failed"}
             THEN update_step_status(s1, "failed", ErrorText)
             ELSE update_step_status(
                      add_insight(s1, ExtractedInsight(step_id, "insight")),
                      "completed", << >>)

\* BaseWorkerNode.__call__ wrapped by execute_task_node
execute_task_node(s, outcome) ==
    IF ~HasCurrentStep(s) THEN s
    ELSE LET step_id == get_current_step(s).step_id
             s1 == [update_step_status(s, "executing", << >>)
                        EXCEPT !.status = "executing"]
         IN  CASE outcome = "gather_failed" ->
                      update_step_status(s1, "failed", ErrorText)
               [] outcome = "gather_raised" ->
                      update_step_status(s1, "failed", ErrorText)
               [] outcome = "gather_raised_blank" ->
                      update_step_status(s1, "failed", BlankText)
               [] outcome = "no_results" ->
                      update_step_status(s1, "failed", ErrorText)
               [] outcome = "process_failed" ->
                      update_step_status(add_search_result(s1, step_id),
                                         "failed", ErrorText)
               [] OTHER ->
                      update_step_status(
                          add_insight(add_search_result(s1, step_id),
                                      ExtractedInsight(step_id, "insight")),
                          "completed", << >>)

----------------------------------------------------------------------------
(* Evaluate node: nodes/result_evaluation.py *)

Verdicts == {"APPROVED", "NEEDS_MORE_INFO", "error"}

\* faulty variant: the depth test lets a step at the maximum depth through
ShouldEvaluateAboveMax(has_insight, depth) ==
    has_insight /\ ~(depth > MAX_RECURSION_DEPTH)

\* faulty variant: a step without an insight is judged all the same
ShouldEvaluateWithoutInsight(has_insight, depth) ==
    ~(depth >= MAX_RECURSION_DEPTH)

\* lines 75-82: whether the judgment call is made
ShouldEvaluate(has_insight, depth) ==
    has_insight /\ ~(depth >= MAX_RECURSION_DEPTH)

\* faulty variant: the children are numbered in reverse
NewStepsReversed(parent, n) ==
    [i \in 1..n |-> ResearchStep(Append(parent.step_id, n + 1 - i), parent.depth + 1)]

\* faulty variant: every child gets the suffix of the first
NewStepsUnnumbered(parent, n) ==
    [i \in 1..n |-> ResearchStep(Append(parent.step_id, 1), parent.depth + 1)]

\* lines 119-129: children of the step at the cursor, one per candidate
NewSteps(parent, n) ==
    [i \in 1..n |-> ResearchStep(Append(parent.step_id, i), parent.depth + 1)]

\* ResearchAgentState.insert_steps_after_current
insert_steps_after_current(s, new_steps) ==
    LET steps == s.research_plan.steps
        i == s.current_step_index
    IN  [s EXCEPT !.research_plan.steps =
            SubSeq(steps, 1, i + 1) \o new_steps \o SubSeq(steps, i + 2, Len(steps))]

\* faulty variant: the cursor skips a step
AdvanceIndexTwice(i) == i + 2

\* line 145
AdvanceIndex(i) == i + 1

\* lines 84-140: the judgment reply applied to the plan
\* faulty variant: the judgment never adds a step
ApplyDecisionDropped(s, verdict, n) == s

\* faulty variant: sub-steps are added whatever the judgment call came to
ApplyDecisionAnyVerdict(s, verdict, n) ==
    IF n > 0
    THEN insert_steps_after_current(s, NewSteps(get_current_step(s), n))
    ELSE s

ApplyDecision(s, verdict, n) ==
    IF verdict = "NEEDS_MORE_INFO" /\ n > 0
    THEN insert_steps_after_current(s, NewSteps(get_current_step(s), n))
    ELSE s

\* faulty variant: a step that is not judged is not passed either
evaluate_task_result_skipping(s, verdict, n) ==
    IF ~HasCurrentStep(s) THEN s
    ELSE LET cur == get_current_step(s)
             has_insight == cur.step_id \in DOMAIN s.extracted_insights
         IN  IF ShouldEvaluate(has_insight, cur.depth)
             THEN [ApplyDecision(s, verdict, n)
                       EXCEPT !.current_step_index = AdvanceIndex(s.current_step_index)]
             ELSE s

\* evaluate_task_result: verdict and n are what the judgment call would answer
evaluate_task_result(s, verdict, n) ==
    IF ~HasCurrentStep(s) THEN s
    ELSE LET cur == get_current_step(s)
             has_insight == cur.step_id \in DOMAIN s.extracted_insights
             s1 == IF ShouldEvaluate(has_insight, cur.depth)
                   THEN ApplyDecision(s, verdict, n)
                   ELSE s
         IN  [s1 EXCEPT !.current_step_index = AdvanceIndex(s.current_step_index)]

----------------------------------------------------------------------------
(* Report node: nodes/report_generation.py *)

generate_final_report(s, ok) ==
    IF ok
    THEN complete_research([s EXCEPT !.final_report = "report",
                                     !.status = "final_review"])
    ELSE set_error(s, MsgReportFailed)

----------------------------------------------------------------------------
(* HITL coordinator: agent_core/core/hitl.py *)

\* faulty variant: an event already pending is kept, the first call wins
create_approval_request_stale(s, event_type) ==
    LET s1 == IF s.pending_hitl_event = NoEvent
              THEN [s EXCEPT !.pending_hitl_event = HITLEvent(event_type)]
              ELSE s
    IN  CASE event_type = "plan_approval" -> [s1 EXCEPT !.status = "plan_review"]
          [] event_type = "final_report_approval" -> [s1 EXCEPT !.status = "final_review"]
          [] OTHER -> s1

create_approval_request(s, event_type) ==
    LET s1 == [s EXCEPT !.pending_hitl_event = HITLEvent(event_type)]
    IN  CASE event_type = "plan_approval" -> [s1 EXCEPT !.status = "plan_review"]
          [] event_type = "final_report_approval" -> [s1 EXCEPT !.status = "final_review"]
          [] OTHER -> s1

should_interrupt(s) ==
    s.pending_hitl_event # NoEvent /\ s.pending_hitl_event.requires_response

----------------------------------------------------------------------------
(* Feedback from the human *)

\* the step list a structured modified_plan carries
ModifiedSteps == <<ResearchStep(<<8>>, 0), ResearchStep(<<9>>, MAX_RECURSION_DEPTH)>>

\* a modified_plan whose step lies deeper than the circuit breaker allows
DeepSteps == <<ResearchStep(<<9>>, BreakerMaxDepth + 1)>>

DeepFeedback == [action |-> "modify", notes |-> "T1", modified |-> TRUE,
                 steps |-> DeepSteps]

Feedbacks ==
    [action : {"approve", "reject", "other"}, notes : {"none"}, modified : {FALSE}]
    \cup [action : {"modify"}, notes : {"T1"}, modified : BOOLEAN]
    \cup [action : {"modify"}, notes : {"none"}, modified : {FALSE}]

\* nodes/hitl_handlers.py handle_plan_feedback
handle_plan_feedback(s, fb) ==
    LET s1 ==
          CASE fb.action = "approve" ->
                 [s EXCEPT !.status = "executing", !.current_step_index = 0]
            [] fb.action = "modify" ->
                 IF fb.modified /\ s.research_plan.exists
                 THEN [s EXCEPT !.research_plan.steps = Field(fb, "steps", ModifiedSteps),
                                !.research_plan.user_modified = TRUE,
                                !.research_plan.modification_notes = fb.notes,
                                !.status = "executing",
                                !.current_step_index = 0]
                 ELSE IF s.research_plan.exists
                      THEN [s EXCEPT !.research_plan.modification_notes = fb.notes,
                                     !.status = "planning"]
                      ELSE [s EXCEPT !.status = "planning"]
            [] OTHER -> set_error(s, MsgPlanRejected)
    IN  [s1 EXCEPT !.pending_hitl_event = NoEvent]

\* nodes/hitl_handlers.py handle_report_feedback
handle_report_feedback(s, fb) ==
    LET s1 ==
          CASE fb.action = "approve" -> complete_research(s)
            [] fb.action = "reject" -> set_error(s, MsgReportRejected)
            [] OTHER -> s
    IN  [s1 EXCEPT !.pending_hitl_event = NoEvent]

\* handlers registered in graph.py lines 27-28
RegisteredHandlers == {"plan_approval", "final_report_approval"}

\* faulty variant: the fallback stores the feedback and keeps the event
handle_feedback_kept(s, fb) ==
    IF s.pending_hitl_event = NoEvent THEN s
    ELSE IF s.pending_hitl_event.event_type \in RegisteredHandlers
         THEN IF s.pending_hitl_event.event_type = "plan_approval"
              THEN handle_plan_feedback(s, fb)
              ELSE handle_report_feedback(s, fb)
         ELSE [s EXCEPT !.human_feedback = fb]

\* faulty variant: without a pending event the default handling is applied
handle_feedback_defaulting(s, fb) ==
    IF s.pending_hitl_event = NoEvent
    THEN [s EXCEPT !.pending_hitl_event = NoEvent, !.human_feedback = fb]
    ELSE IF s.pending_hitl_event.event_type \in RegisteredHandlers
         THEN IF s.pending_hitl_event.event_type = "plan_approval"
              THEN handle_plan_feedback(s, fb)
              ELSE handle_report_feedback(s, fb)
         ELSE [s EXCEPT !.pending_hitl_event = NoEvent, !.human_feedback = fb]

\* HITLManager.handle_feedback
handle_feedback(s, fb) ==
    IF s.pending_hitl_event = NoEvent THEN s
    ELSE IF s.pending_hitl_event.event_type \in RegisteredHandlers
         THEN IF s.pending_hitl_event.event_type = "plan_approval"
              THEN handle_plan_feedback(s, fb)
              ELSE handle_report_feedback(s, fb)
         ELSE [s EXCEPT !.pending_hitl_event = NoEvent, !.human_feedback = fb]

\* app.py submit_feedback, the state it hands to aupdate_state: a full dump
\* of the snapshot with the feedback applied
submit_feedback_state(s, fb) ==
    LET d == model_dump(s)
        s1 == [d EXCEPT !.human_feedback = fb, !.pending_hitl_event = NoEvent]
    IN  CASE fb.action = "approve" -> [s1 EXCEPT !.status = "executing"]
          [] fb.action = "modify" ->
               IF s1.research_plan.exists
               THEN [s1 EXCEPT !.status = "planning",
                               !.current_step_index = 0,
                               !.research_plan.modification_notes = fb.notes]
               ELSE [s1 EXCEPT !.status = "planning", !.current_step_index = 0]
          [] fb.action = "reject" ->
               [s1 EXCEPT !.status = "error", !.error_message = MsgApiRejected]
          [] OTHER -> s1

----------------------------------------------------------------------------
(* Middleware: middleware/base.py, middleware/implementations.py.  A hook  *)
(* either returns a changed state ("mark": the state it was given with its *)
(* own mark appended), returns the state as given ("pass"), or raises.     *)

HookBehaviours == {"mark", "raise"}

\* faulty variant: the loops visit the middlewares in reverse
HookOrderReversed(n, i) == n + 1 - i

\* `for middleware in self.middlewares`: iteration i visits the i-th
\* registered middleware
HookOrder(n, i) == i

\* faulty variant: a raising hook's state is taken over all the same
HookResultKept(behaviour, hook, who, state) == Append(state, <<hook, who>>)

\* `state = await middleware.<hook>(...)` inside try/except: the assignment
\* happens only when the hook returns
HookResult(behaviour, hook, who, state) ==
    IF behaviour = "mark" THEN Append(state, <<hook, who>>) ELSE state

\* one of the three hook loops of wrapped_node: every middleware's hook is
\* called with the current state, a raising hook is logged and skipped
HookLoop(mws, hook, state, trace) ==
    LET n == Len(mws)
        f[i \in 0..n] ==
            IF i = 0 THEN [state |-> state, trace |-> trace]
            ELSE LET who == HookOrder(n, i)
                     prev == f[i - 1]
                     call == [hook |-> hook, who |-> who, state |-> prev.state]
                 IN  [state |-> HookResult(mws[who][hook], hook, who, prev.state),
                      trace |-> Append(prev.trace, call)]
    IN  f[n]

\* MiddlewareManager.wrap_node: the wrapped function called with `state`;
\* body tells whether node_func returns or raises
wrapped_node(mws, body, state) ==
    LET b == HookLoop(mws, "before", state, << >>)
        call == [hook |-> "node", who |-> 0, state |-> b.state]
    IN  IF body = "return"
        THEN LET a == HookLoop(mws, "after", Append(b.state, <<"node", 0>>),
                               Append(b.trace, call))
             IN  [result |-> "returned", error |-> "none",
                  state |-> a.state, trace |-> a.trace]
        ELSE LET e == HookLoop(mws, "on_error", b.state, Append(b.trace, call))
             IN  [result |-> "raised", error |-> "node",
                  state |-> e.state, trace |-> e.trace]

\* faulty variant: the breaker is left without a margin above the roots
BreakerBeforeNoMargin(s) ==
    IF HasCurrentStep(s) /\ get_current_step(s).depth > DefaultDepth
    THEN "raise" ELSE "pass"

\* RecursionCircuitBreaker.before_node_execution
BreakerBefore(s) ==
    IF HasCurrentStep(s) /\ get_current_step(s).depth > BreakerMaxDepth
    THEN "raise" ELSE "pass"

\* the middlewares of the running application in registration order:
\* circuit breaker, Langfuse, context management (build_graph), then
\* logging and error handler (app.py); only the error handler's on_error
\* changes the state it is given (set_error)
RegisteredMiddlewares(s) ==
    <<[before |-> BreakerBefore(s), after |-> "pass", on_error |-> "pass"],
      [before |-> "pass", after |-> "pass", on_error |-> "pass"],
      [before |-> "pass", after |-> "pass", on_error |-> "pass"],
      [before |-> "pass", after |-> "pass", on_error |-> "pass"],
      [before |-> "pass", after |-> "pass", on_error |-> "mark"]>>

\* wrapped_node under the registered middlewares hands the node body the
\* state it was called with and returns what the body returns: a before
\* hook returns the state it was given or raises and is skipped, the after
\* hooks return what they are given
RegisteredHooksTransparent(s) ==
    LET w == wrapped_node(RegisteredMiddlewares(s), "return", << >>)
    IN  /\ w.result = "returned"
        /\ w.state = << <<"node", 0>> >>
        /\ \E i \in DOMAIN w.trace :
               w.trace[i].hook = "node" /\ w.trace[i].state = << >>

\* a graph node behind wrap_node, as the graph sees it (what
\* RegisteredHooksTransparent says of every state)
wrap_node(s, body_state) == body_state

\* app.py get_status: a read of the persisted snapshot
get_status(s) ==
    [status |-> s.status,
     error |-> s.error_message,
     final_report |-> s.final_report,
     extracted_insights |-> s.extracted_insights,
     waiting_for_approval |-> (s.pending_hitl_event # NoEvent)]

\* what aget_state gives the status route.  A session that has a checkpoint
\* gives its values.  For a thread id without one the checkpointer's answer
\* is either no snapshot at all or a snapshot without values.
Snapshots(known, s) ==
    IF known THEN {[found |-> TRUE, values |-> model_dump(s)]}
    ELSE {[found |-> FALSE, values |-> << >>],
          [found |-> TRUE, values |-> << >>]}

\* raise HTTPException(status_code, ...) inside the route's try block: the
\* route's `except Exception` catches it and raises a 500 in its place
RaisedInRoute(status_code) == [code |-> 500, body |-> "none"]

\* app.py get_status, the route as a whole: the response to a snapshot
get_status_route(snapshot) ==
    IF ~snapshot.found THEN RaisedInRoute(404)
    ELSE [code |-> 200,
          body |-> get_status(
              [status |-> Field(snapshot.values, "status", "planning"),
               error_message |-> Field(snapshot.values, "error_message", NoMessage),
               final_report |-> Field(snapshot.values, "final_report", "none"),
               extracted_insights |->
                   Field(snapshot.values, "extracted_insights", << >>),
               pending_hitl_event |->
                   Field(snapshot.values, "pending_hitl_event", NoEvent)])]

----------------------------------------------------------------------------
(* Routing: graph.py *)

should_continue_to_execution(s, cfg) ==
    IF s.status = "error" THEN "END"
    ELSE IF cfg.require_plan_approval THEN "create_plan_approval"
    ELSE "execute_step"

\* faulty variant: the report follows the first evaluation
check_step_completion_early(s) ==
    IF s.status = "error" THEN "END" ELSE "generate_report"

check_step_completion(s) ==
    IF s.status = "error" THEN "END"
    ELSE IF ~s.research_plan.exists THEN "END"
    ELSE IF s.current_step_index < Len(s.research_plan.steps) THEN "execute_step"
    ELSE "generate_report"

check_report_approval(s, cfg) ==
    IF s.status = "error" THEN "END"
    ELSE IF cfg.require_final_approval THEN "create_report_approval"
    ELSE "END"

route_after_wait(s) ==
    CASE s.status = "executing" -> "execute_step"
      [] s.status = "planning" -> "plan_generation"
      [] OTHER -> "END"

\* build_graph: the node that follows `node` once it has written state s
Successor(node, s, cfg) ==
    CASE node = "plan_generation" -> should_continue_to_execution(s, cfg)
      [] node = "create_plan_approval" -> "wait_node"
      [] node = "create_report_approval" -> "wait_node"
      [] node = "wait_node" -> route_after_wait(s)
      [] node = "execute_step" -> "evaluate_step"
      [] node = "evaluate_step" -> check_step_completion(s)
      [] node = "generate_report" -> check_report_approval(s, cfg)
      [] OTHER -> "END"

----------------------------------------------------------------------------
(* The session: persisted state and the compiled graph's position *)

\* the persisted ResearchAgentState snapshot
AgentState ==
    [status |-> status,
     research_plan |-> research_plan,
     current_step_index |-> current_step_index,
     search_results |-> search_results,
     extracted_insights |-> extracted_insights,
     final_report |-> final_report,
     pending_hitl_event |-> pending_hitl_event,
     human_feedback |-> human_feedback,
     error_message |-> error_message]

\* the checkpoint written at a node boundary: every field at once
Persist(s) ==
    /\ status' = s.status
    /\ research_plan' = s.research_plan
    /\ current_step_index' = s.current_step_index
    /\ search_results' = s.search_results
    /\ extracted_insights' = s.extracted_insights
    /\ final_report' = s.final_report
    /\ pending_hitl_event' = s.pending_hitl_event
    /\ human_feedback' = s.human_feedback
    /\ error_message' = s.error_message

NoInput == [verdict |-> "none", n |-> 0, outcome |-> "none", ok |-> TRUE, fb |-> NoFeedback]

NoPre == [steps |-> << >>, index |-> 0]

NoInvocation ==
    [middlewares |-> << >>, body |-> "none",
     result |-> [result |-> "none", error |-> "none", state |-> << >>,
                 trace |-> << >>]]

\* a server on which no session was started
NoStore == << >>

NoTasks == {}

\* what the last operation was and what it was given; an evaluation also
\* keeps the plan and cursor it started from
Record(op, input) ==
    hist' = [op |-> op, input |-> input,
             pre |-> IF op = "evaluate_step"
                     THEN [steps |-> research_plan.steps, index |-> current_step_index]
                     ELSE NoPre]

\* a node has returned state s: checkpoint, then route; the run stops at END
\* and before wait_node (compile(interrupt_before=["wait_node"]))
NodeDone(node, s) ==
    /\ Persist(s)
    /\ pc' = Successor(node, s, config)
    /\ supersteps' = supersteps + 1
    /\ running' = /\ Successor(node, s, config) \notin {"END", "wait_node"}
                  /\ supersteps + 1 < RecursionLimit
    /\ last_node' = node
    /\ executed_since_fb' = (executed_since_fb \/ node = "execute_step")
    /\ UNCHANGED <<config, last_fb, fb_count, invocation, store, tasks>>

Init ==
    /\ status = "planning"
    /\ research_plan = NoPlan
    /\ current_step_index = 0
    /\ search_results = {}
    /\ extracted_insights = << >>
    /\ final_report = "none"
    /\ pending_hitl_event = NoEvent
    /\ human_feedback = NoFeedback
    /\ error_message = NoMessage
    /\ config \in [require_plan_approval : BOOLEAN, require_final_approval : BOOLEAN]
    /\ pc = "plan_generation"
    /\ running = TRUE
    /\ supersteps = 0
    /\ last_node = "start"
    /\ planner_input = "none"
    /\ executed_since_fb = FALSE
    /\ fb_count = 0
    /\ last_fb = [fb |-> NoFeedback, at |-> "none", via |-> "none", had_plan |-> FALSE]
    /\ invocation = NoInvocation
    /\ store = NoStore
    /\ tasks = NoTasks
    /\ hist = [op |-> "start", input |-> NoInput, pre |-> NoPre]

\* the plan node with the planner reply (ok = it parsed, n steps)
PlanWith(ok, n) ==
    /\ running /\ pc = "plan_generation"
    /\ NodeDone("plan_generation",
                wrap_node(AgentState, generate_plan(AgentState, ok, n)))
    /\ Record("plan_generation", [NoInput EXCEPT !.ok = ok, !.n = n])
    /\ planner_input' = PlannerFeedbackContext(AgentState)

plan_generation ==
    \E ok \in BOOLEAN, n \in 0..MaxRoots : PlanWith(ok, n)

create_plan_approval ==
    /\ running /\ pc = "create_plan_approval"
    /\ NodeDone("create_plan_approval",
                wrap_node(AgentState,
                          create_approval_request(AgentState, "plan_approval")))
    /\ Record("create_plan_approval", NoInput)
    /\ UNCHANGED planner_input

\* the execute node with the outcome of gathering and processing
ExecuteWith(outcome) ==
    /\ running /\ pc = "execute_step"
    /\ NodeDone("execute_step",
                wrap_node(AgentState, execute_task_node(AgentState, outcome)))
    /\ Record("execute_step", [NoInput EXCEPT !.outcome = outcome])
    /\ UNCHANGED planner_input

execute_step ==
    \E outcome \in ExecOutcomes : ExecuteWith(outcome)

\* the evaluate node with the judgment reply (verdict, n candidates)
EvaluateWith(verdict, n) ==
    /\ running /\ pc = "evaluate_step"
    /\ NodeDone("evaluate_step",
                wrap_node(AgentState, evaluate_task_result(AgentState, verdict, n)))
    /\ Record("evaluate_step", [NoInput EXCEPT !.verdict = verdict, !.n = n])
    /\ UNCHANGED planner_input

evaluate_step ==
    \E verdict \in Verdicts, n \in 0..MaxCands :
        /\ Len(research_plan.steps) + n <= MaxPlanLen
        /\ EvaluateWith(verdict, n)

generate_report ==
    /\ running /\ pc = "generate_report"
    /\ \E ok \in BOOLEAN :
          /\ NodeDone("generate_report",
                      wrap_node(AgentState, generate_final_report(AgentState, ok)))
          /\ Record("generate_report", [NoInput EXCEPT !.ok = ok])
    /\ UNCHANGED planner_input

create_report_approval ==
    /\ running /\ pc = "create_report_approval"
    /\ NodeDone("create_report_approval",
                wrap_node(AgentState,
                          create_approval_request(AgentState, "final_report_approval")))
    /\ Record("create_report_approval", NoInput)
    /\ UNCHANGED planner_input

\* wait_node is the identity (lambda x: x); it runs only in a resumed run
wait_node ==
    /\ running /\ pc = "wait_node"
    /\ NodeDone("wait_node", AgentState)
    /\ Record("wait_node", NoInput)
    /\ UNCHANGED planner_input

\* where the session is parked when a feedback arrives
ParkedAt ==
    IF pc = "wait_node" /\ last_node = "create_plan_approval" THEN "plan_review"
    ELSE IF pc = "wait_node" /\ last_node = "create_report_approval" THEN "final_review"
    ELSE "ended"

\* aupdate_state(config, new_state) then _resume_graph: the update counts as
\* written by the last node, whose outgoing edges choose the next node
UpdateAndResume(s, fb, via) ==
    /\ Persist(s)
    /\ pc' = Successor(last_node, s, config)
    /\ running' = (Successor(last_node, s, config) # "END")
    /\ supersteps' = 0
    /\ executed_since_fb' = FALSE
    /\ fb_count' = fb_count + 1
    /\ last_fb' = [fb |-> fb, at |-> ParkedAt, via |-> via,
                   had_plan |-> research_plan.exists]
    /\ Record(via, [NoInput EXCEPT !.fb = fb])
    /\ UNCHANGED <<config, last_node, planner_input, invocation, store, tasks>>

\* app.py submit_feedback
submit_feedback ==
    /\ ~running /\ fb_count < MaxFeedbacks
    /\ \E fb \in Feedbacks :
          UpdateAndResume(model_validate(submit_feedback_state(AgentState, fb)),
                          fb, "submit_feedback")

\* feedback dispatched through the HITL coordinator
dispatch_feedback ==
    /\ ~running /\ fb_count < MaxFeedbacks
    /\ \E fb \in Feedbacks :
          UpdateAndResume(handle_feedback(AgentState, fb), fb, "dispatch_feedback")

Next ==
    \/ plan_generation
    \/ create_plan_approval
    \/ execute_step
    \/ evaluate_step
    \/ generate_report
    \/ create_report_approval
    \/ wait_node
    \/ submit_feedback
    \/ dispatch_feedback

Spec == Init /\ [][Next]_vars

----------------------------------------------------------------------------
(* Full expansion: no approval gates, every step yields an insight and     *)
(* every judgment answers NEEDS_MORE_INFO with ExpandCands candidates.     *)
(* Nothing but the code's own limits bounds the plan here.                 *)

ExpandInit ==
    /\ Init
    /\ ~config.require_plan_approval

ExpandPlan == \E n \in 1..ExpandRoots : PlanWith(TRUE, n)

ExpandExecute == ExecuteWith("ok")

ExpandEvaluate == EvaluateWith("NEEDS_MORE_INFO", ExpandCands)

ExpandNext ==
    \/ ExpandPlan
    \/ ExpandExecute
    \/ ExpandEvaluate
    \/ generate_report
    \/ create_report_approval

\* a run that can take a step takes it: the nodes of an astream run are
\* driven by the event loop until the run ends
FairExpand == ExpandInit /\ [][ExpandNext]_vars /\ WF_vars(ExpandNext)

----------------------------------------------------------------------------
(* Scenario runs: the graph on its own, without feedback, under planner    *)
(* replies of up to ScenarioRoots steps.                                   *)

ScenarioPlan == \E ok \in BOOLEAN, n \in 0..ScenarioRoots : PlanWith(ok, n)

ScenarioEvaluate ==
    \E verdict \in Verdicts, n \in 0..ScenarioCands :
        /\ Len(research_plan.steps) + n <= ScenarioLen
        /\ EvaluateWith(verdict, n)

ScenarioNext ==
    \/ ScenarioPlan
    \/ create_plan_approval
    \/ execute_step
    \/ ScenarioEvaluate
    \/ generate_report
    \/ create_report_approval

\* a run that can take a step takes it
ScenarioSpec == Init /\ [][ScenarioNext]_vars /\ WF_vars(ScenarioNext)

----------------------------------------------------------------------------
(* The insight map on its own: add_insight called with any step id and     *)
(* content, in any order.                                                  *)

InsightIds == {<<k>> : k \in 1..MaxInsightIds}

InsightContents == {"c1", "c2"}

insight_added ==
    \E step_id \in InsightIds, content \in InsightContents :
        /\ Persist(add_insight(AgentState, ExtractedInsight(step_id, content)))
        /\ hist' = [op |-> "add_insight",
                    input |-> ExtractedInsight(step_id, content),
                    pre |-> [insights |-> extracted_insights]]
        /\ UNCHANGED <<config, pc, running, supersteps, last_node, planner_input,
                       executed_since_fb, fb_count, last_fb, invocation, store, tasks>>

InsightSpec == Init /\ [][insight_added]_vars

----------------------------------------------------------------------------
(* wrap_node on its own: a wrapped function invoked under any chain of up  *)
(* to MaxMiddlewares middlewares, each hook of which returns or raises.    *)

Middlewares == [before : HookBehaviours, after : HookBehaviours,
                on_error : HookBehaviours]

Chains == UNION {[1..n -> Middlewares] : n \in 0..MaxMiddlewares}

invoke_wrapped_node ==
    \E mws \in Chains, body \in {"return", "raise"} :
        /\ invocation = NoInvocation
        /\ invocation' = [middlewares |-> mws, body |-> body,
                          result |-> wrapped_node(mws, body, << >>)]
        /\ UNCHANGED <<status, research_plan, current_step_index, search_results,
                       extracted_insights, final_report, pending_hitl_event,
                       human_feedback, error_message, config, pc, running,
                       supersteps, last_node, planner_input, executed_since_fb,
                       fb_count, last_fb, store, tasks, hist>>

WrapSpec == Init /\ [][invoke_wrapped_node]_vars

----------------------------------------------------------------------------
(* The session under faults: a node body may raise, a gatherer may raise   *)
(* an exception without text, and a structured modify may carry a step     *)
(* deeper than the circuit breaker allows.                                 *)

WrappedNodes == {"plan_generation", "create_plan_approval", "execute_step",
                 "evaluate_step", "generate_report", "create_report_approval"}

\* ErrorHandlerMiddleware.on_error on the state object wrapped_node holds
ErrorHandlerOnError(s, node_name) == set_error(s, <<"Error", "in", node_name>>)

\* node_func raises: the on_error hooks run on wrapped_node's local state,
\* the exception is raised again, the run ends without a checkpoint for
\* this node and run_agent_background only logs the exception
node_raises ==
    /\ running /\ pc \in WrappedNodes
    /\ wrapped_node(RegisteredMiddlewares(AgentState), "raise", << >>).result = "raised"
    /\ running' = FALSE
    /\ hist' = [op |-> "node_raises", input |-> NoInput, pre |-> NoPre]
    /\ UNCHANGED <<status, research_plan, current_step_index, search_results,
                   extracted_insights, final_report, pending_hitl_event,
                   human_feedback, error_message, config, pc, supersteps,
                   last_node, planner_input, executed_since_fb, fb_count,
                   last_fb, invocation, store, tasks>>

\* the gatherer raises an exception whose str() is empty
execute_step_blank == ExecuteWith("gather_raised_blank")

\* a structured modify with DeepSteps through the HITL coordinator
dispatch_deep_feedback ==
    /\ ~running /\ fb_count < MaxFeedbacks
    /\ UpdateAndResume(handle_feedback(AgentState, DeepFeedback), DeepFeedback,
                       "dispatch_feedback")

FaultNext ==
    \/ Next
    \/ node_raises
    \/ execute_step_blank
    \/ dispatch_deep_feedback

FaultSpec == Init /\ [][FaultNext]_vars

----------------------------------------------------------------------------
(* Properties *)

\* the evaluate node has just run on a step that was at the cursor
EvaluatedAStep ==
    /\ hist.op = "evaluate_step"
    /\ hist.pre.index < Len(hist.pre.steps)

\* the step the evaluate node has just judged
EvaluatedStep == hist.pre.steps[hist.pre.index + 1]

\* the judgment was called and answered needs-more-info with candidates
Expanded ==
    /\ EvaluatedAStep
    /\ hist.input.verdict = "NEEDS_MORE_INFO"
    /\ hist.input.n > 0
    /\ EvaluatedStep.step_id \in DOMAIN extracted_insights
    /\ EvaluatedStep.depth < MAX_RECURSION_DEPTH

\* C1: whenever the session has a plan, 0 <= current_step_index <=
\* len(plan.steps), after every node and every feedback; and the graph is
\* about to run the report node only with a plan whose cursor equals its
\* length.
CursorInvariant ==
    /\ research_plan.exists =>
           /\ 0 <= current_step_index
           /\ current_step_index <= Len(research_plan.steps)
    /\ pc = "generate_report" =>
           /\ research_plan.exists
           /\ current_step_index = Len(research_plan.steps)

\* an expanded plan has been worked through to the report node
CursorWitness ==
    /\ pc = "generate_report"
    /\ hist.op = "evaluate_step"
    /\ current_step_index = Len(research_plan.steps)
    /\ \E k \in 1..Len(research_plan.steps) : research_plan.steps[k].depth > 0

\* C2: when the evaluation of S[i] inserts the children N (numbered 1..n
\* under the parent's id, one level deeper, pending), the plan becomes
\* S[0..i] ++ N ++ S[i+1..], the cursor is i+1 and names N's first element;
\* the insertion on its own leaves the cursor where it was.
InsertionOrdering ==
    /\ Expanded =>
           LET S == hist.pre.steps
               i == hist.pre.index
               N == [k \in 1..hist.input.n |->
                        [step_id |-> Append(S[i + 1].step_id, k),
                         depth |-> S[i + 1].depth + 1,
                         status |-> "pending",
                         error_message |-> << >>]]
           IN  /\ research_plan.steps =
                      SubSeq(S, 1, i + 1) \o N \o SubSeq(S, i + 2, Len(S))
               /\ current_step_index = i + 1
               /\ research_plan.steps[current_step_index + 1] = N[1]
    /\ HasCurrentStep(AgentState) =>
           \A n \in 1..MaxCands :
               insert_steps_after_current(
                   AgentState, NewSteps(get_current_step(AgentState), n)
               ).current_step_index = current_step_index

\* two children were inserted after the evaluated step
InsertionWitness ==
    /\ Expanded
    /\ hist.input.n = 2
    /\ Len(research_plan.steps) = Len(hist.pre.steps) + 2

\* C3: an evaluation of a step whose depth is >= MAX_RECURSION_DEPTH leaves
\* the step list as it was, whatever the judgment would answer; every
\* step an evaluation inserts is one level deeper than the evaluated step.
DepthBoundSafety ==
    EvaluatedAStep =>
        /\ EvaluatedStep.depth >= MAX_RECURSION_DEPTH =>
               research_plan.steps = hist.pre.steps
        /\ \A k \in (hist.pre.index + 2) ..
                     (hist.pre.index + 1 + Len(research_plan.steps) - Len(hist.pre.steps)) :
               research_plan.steps[k].depth = EvaluatedStep.depth + 1

\* a step at the maximum depth, holding an insight, met a needs-more-info
\* answer with candidates
DepthBoundWitness ==
    /\ EvaluatedAStep
    /\ EvaluatedStep.depth >= MAX_RECURSION_DEPTH
    /\ EvaluatedStep.step_id \in DOMAIN extracted_insights
    /\ hist.input.verdict = "NEEDS_MORE_INFO"
    /\ hist.input.n > 0

\* no step is nested deeper than the maximum depth: depth and id agree
ExpansionBounded ==
    \A k \in 1..Len(research_plan.steps) :
        /\ research_plan.steps[k].depth <= MAX_RECURSION_DEPTH
        /\ Len(research_plan.steps[k].step_id) - 1 <= MAX_RECURSION_DEPTH

\* C4: when every judgment below the maximum depth answers needs-more-info
\* with candidates, no branch is expanded more than MAX_RECURSION_DEPTH
\* times and the execute/evaluate loop eventually reaches the report node.
ExpansionTerminates ==
    []ExpansionBounded /\ <>(pc = "generate_report")

\* C5: once status is completed or error, no node, routing step or feedback
\* changes it.
TerminalStatesFinal ==
    [][(status \in {"completed", "error"}) => (status' = status)]_vars

\* C6: a pending HITL event exists exactly when the status is plan_review
\* or final_review.
PendingEventInvariant ==
    (pending_hitl_event # NoEvent) <=> (status \in {"plan_review", "final_review"})

\* C7: from a state in plan_review with a pending plan_approval event, the
\* next operation is never the execute, evaluate or report node: only a
\* feedback moves the session on.
PlanReviewSuspension ==
    [][(status = "plan_review" /\ pending_hitl_event.event_type = "plan_approval")
          => hist'.op \notin {"execute_step", "evaluate_step", "generate_report"}]_vars

\* the latest feedback was submitted at the plan_review suspend point, where
\* a plan was under review
AtPlanReview(fb) ==
    /\ last_fb.at = "plan_review"
    /\ last_fb.had_plan
    /\ last_fb.fb = fb

AllStepsPending ==
    \A k \in 1..Len(research_plan.steps) : research_plan.steps[k].status = "pending"

\* C8: after a reject submitted at plan_review the status is error, the
\* message contains "rejected by user", no event is pending, and no step
\* has run: every step is pending, no search result and no insight is stored.
PlanRejection ==
    AtPlanReview([action |-> "reject", notes |-> "none", modified |-> FALSE]) =>
        /\ status = "error"
        /\ Contains(error_message, <<"rejected", "by", "user">>)
        /\ pending_hitl_event = NoEvent
        /\ ~executed_since_fb
        /\ AllStepsPending
        /\ search_results = {}
        /\ DOMAIN extracted_insights = {}

\* C9: after a modify with notes T1 and no modified plan at plan_review:
\* the feedback leaves status planning with T1 in plan.modification_notes;
\* the run goes through wait_node to the planner, which receives T1; no
\* step executes; and when the run stops with a plan, the session is in
\* plan_review with a pending plan_approval event and every step pending.
NotesOnlyModify ==
    AtPlanReview([action |-> "modify", notes |-> "T1", modified |-> FALSE]) =>
        /\ ~executed_since_fb
        /\ hist.op \in {"submit_feedback", "dispatch_feedback"} =>
               /\ status = "planning"
               /\ research_plan.modification_notes = "T1"
               /\ running /\ pc = "wait_node"
        /\ hist.op = "wait_node" => running /\ pc = "plan_generation"
        /\ hist.op = "plan_generation" => planner_input = "T1"
        /\ (~running /\ status # "error") =>
               /\ hist.op = "create_plan_approval"
               /\ status = "plan_review"
               /\ pending_hitl_event = HITLEvent("plan_approval")
               /\ AllStepsPending

\* the regenerated plan is parked at plan_review
NotesOnlyModifyWitness ==
    /\ AtPlanReview([action |-> "modify", notes |-> "T1", modified |-> FALSE])
    /\ ~running
    /\ status = "plan_review"
    /\ planner_input = "T1"
    /\ Len(research_plan.steps) > 0

\* C10: right after an approve at plan_review the status is executing and
\* the cursor 0; right after a modify carrying a modified plan the plan
\* holds the edited steps, is marked user_modified, the status is
\* executing and the cursor 0; the planner does not run afterwards.
PlanReviewResume ==
    /\ (/\ last_fb.at = "plan_review"
        /\ hist.op \in {"submit_feedback", "dispatch_feedback"}
        /\ last_fb.fb.action = "approve") =>
           /\ status = "executing"
           /\ current_step_index = 0
    /\ (/\ last_fb.at = "plan_review"
        /\ last_fb.fb.action = "modify"
        /\ last_fb.fb.modified) =>
           /\ hist.op # "plan_generation"
           /\ hist.op \in {"submit_feedback", "dispatch_feedback"} =>
                  /\ research_plan.steps = ModifiedSteps
                  /\ research_plan.user_modified
                  /\ status = "executing"
                  /\ current_step_index = 0


\* the latest feedback was submitted at the final_review suspend point
AtFinalReview(action) ==
    /\ last_fb.at = "final_review"
    /\ last_fb.fb.action = action

\* C11: after an approve (reject) submitted at final_review the status is
\* completed (error) at once and when the run has stopped; no step is
\* executed or evaluated, the report is not generated again, no approval is
\* requested again, and the run stops at END.
FinalReviewResume ==
    \A action \in {"approve", "reject"} :
        AtFinalReview(action) =>
            /\ hist.op \notin {"plan_generation", "execute_step", "evaluate_step",
                                "generate_report", "create_report_approval"}
            /\ (hist.op \in {"submit_feedback", "dispatch_feedback"} \/ ~running) =>
                   status = IF action = "approve" THEN "completed" ELSE "error"
            /\ ~running => pc = "END"


\* the snapshot after a restart: serialized, then read back
Restarted(s) == model_validate(model_dump(s))

GatherFailures == {"gather_failed", "gather_raised", "gather_raised_blank",
                   "no_results"}

StepIsolation ==
    (/\ pc = "execute_step" /\ HasCurrentStep(AgentState)
     /\ get_current_step(AgentState).step_id \notin DOMAIN extracted_insights) =>
        \A outcome \in GatherFailures :
            LET b == execute_task_node(AgentState, outcome)
            IN  /\ get_current_step(b).status = "failed"
                /\ get_current_step(b).error_message # << >>
                /\ b.status = "executing"
                /\ b.extracted_insights = extracted_insights
                /\ Successor("execute_step", b, config) = "evaluate_step"
                /\ \A verdict \in Verdicts, n \in 0..MaxCands :
                       LET e == evaluate_task_result(b, verdict, n)
                       IN  /\ e.status = "executing"
                           /\ e.current_step_index = current_step_index + 1
                           /\ e.research_plan = b.research_plan
                           /\ e.extracted_insights = extracted_insights
                           /\ HasCurrentStep(e) =>
                                  Successor("evaluate_step", e, config) = "execute_step"


\* C14: the insight map holds one content per step id; after add_insight the
\* id written holds the content written last, every other id holds what it
\* held before, and no other id is added or removed.
OneInsightPerStep ==
    hist.op = "add_insight" =>
        LET before == hist.pre.insights
            written == hist.input
        IN  /\ extracted_insights[written.step_id] = written.content
            /\ DOMAIN extracted_insights = (DOMAIN before) \cup {written.step_id}
            /\ \A id \in (DOMAIN before) \ {written.step_id} :
                   extracted_insights[id] = before[id]

\* a second insight for a step id replaced the first, next to another id's
OneInsightPerStepWitness ==
    /\ hist.op = "add_insight"
    /\ hist.input.step_id \in DOMAIN hist.pre.insights
    /\ hist.pre.insights[hist.input.step_id] # hist.input.content
    /\ \E id \in DOMAIN hist.pre.insights : id # hist.input.step_id


\* no approval is required
NoApproval == ~config.require_plan_approval /\ ~config.require_final_approval

\* the run is on the happy path: no approval required, the plan is [s1, s2]
\* as the planner made it, no step has failed, no step was inserted and no
\* node has set the session to error
HappyRun ==
    /\ NoApproval
    /\ research_plan.exists
    /\ Len(research_plan.steps) = 2
    /\ \A i \in 1..2 : /\ research_plan.steps[i].step_id = <<i>>
                        /\ research_plan.steps[i].status \in {"pending", "completed"}
    /\ status # "error"

\* steps executed so far on the happy path
ExecutedSoFar ==
    IF hist.op = "execute_step" THEN current_step_index + 1 ELSE current_step_index

HappyDone ==
    /\ HappyRun
    /\ pc = "END"
    /\ status = "completed"
    /\ final_report # "none"

\* on the happy path the steps are executed in plan order, each by exactly
\* one run of the execute node, and each leaves its insight
HappyOrder ==
    HappyRun =>
        /\ \A i \in 1..2 :
               (research_plan.steps[i].status = "completed") <=> (i <= ExecutedSoFar)
        /\ DOMAIN extracted_insights = {<<i>> : i \in 1..ExecutedSoFar}
        /\ supersteps = 1 + current_step_index + ExecutedSoFar
                           + (IF hist.op = "generate_report" THEN 1 ELSE 0)
        /\ pc = "END" =>
               /\ current_step_index = 2
               /\ supersteps = 6
               /\ status = "completed"
               /\ final_report # "none"

\* C15: with no approval required and a plan [s1, s2] whose steps all
\* succeed and are approved, the run executes s1 and then s2, each exactly
\* once, stores an insight for each, and ends with status completed and a
\* final report.
HappyPath == []HappyOrder /\ (HappyRun ~> (HappyDone \/ ~HappyRun))

\* the happy path has run to its end
HappyPathWitness ==
    /\ HappyDone
    /\ \A i \in 1..2 : research_plan.steps[i].status = "completed"
    /\ DOMAIN extracted_insights = {<<1>>, <<2>>}

\* the sub-step the judgment of `root` adds for its first candidate
FirstSubStep(root) ==
    [step_id |-> Append(root.step_id, 1), depth |-> root.depth + 1,
     status |-> "pending", error_message |-> << >>]

\* the plan is a root step at depth 0 followed by its first sub-step
RootAndSubStep(steps) ==
    /\ Len(steps) = 2
    /\ steps[1].depth = 0
    /\ steps[2].step_id = Append(steps[1].step_id, 1)
    /\ steps[2].depth = 1

CallsOf(trace, hook) == {i \in DOMAIN trace : trace[i].hook = hook}

\* C19: in every invocation of a wrapped function under middlewares m1..mn
\* the before hooks are called in the order m1..mn, then the node body; when
\* the body returns, the after hooks are called in the order m1..mn and the
\* wrapped function returns; when the body raises, the on_error hooks are
\* called in the order m1..mn, no after hook is called, and the wrapped
\* function raises the body's exception.
MiddlewareOrdering ==
    invocation # NoInvocation =>
        LET n == Len(invocation.middlewares)
            trace == invocation.result.trace
            later == IF invocation.body = "return" THEN "after" ELSE "on_error"
        IN  /\ Len(trace) = 2 * n + 1
            /\ \A k \in 1..n : trace[k].hook = "before" /\ trace[k].who = k
            /\ trace[n + 1].hook = "node"
            /\ \A k \in 1..n : /\ trace[n + 1 + k].hook = later
                                /\ trace[n + 1 + k].who = k
            /\ invocation.body = "return" =>
                   /\ invocation.result.result = "returned"
                   /\ CallsOf(trace, "on_error") = {}
            /\ invocation.body = "raise" =>
                   /\ invocation.result.result = "raised"
                   /\ invocation.result.error = "node"
                   /\ CallsOf(trace, "after") = {}

\* under three middlewares, one of whose on_error hooks itself raises, the
\* node body has raised
MiddlewareOrderingWitness ==
    /\ invocation # NoInvocation
    /\ Len(invocation.middlewares) = 3
    /\ invocation.body = "raise"
    /\ invocation.middlewares[2].on_error = "raise"
    /\ invocation.result.result = "raised"

\* C20: when the before hook of mk raises, the wrapped function does not
\* raise for it: the before hooks of mk+1..mn and the node body are still
\* called, the call that follows mk's receives the state mk was given (what
\* mk-1 returned), and the node body is called exactly once.
MiddlewareFaultTolerance ==
    invocation # NoInvocation =>
        LET n == Len(invocation.middlewares)
            trace == invocation.result.trace
        IN  \A k \in 1..n :
                invocation.middlewares[k].before = "raise" =>
                    /\ \A j \in (k + 1)..n :
                           trace[j].hook = "before" /\ trace[j].who = j
                    /\ trace[k + 1].state = trace[k].state
                    /\ Cardinality(CallsOf(trace, "node")) = 1
                    /\ invocation.body = "return" =>
                           invocation.result.result = "returned"
                    /\ invocation.result.error # "before"

\* the before hook of the second of three middlewares raised after the
\* first had changed the state, and the node body returned
MiddlewareFaultToleranceWitness ==
    /\ invocation # NoInvocation
    /\ Len(invocation.middlewares) = 3
    /\ invocation.middlewares[1].before = "mark"
    /\ invocation.middlewares[2].before = "raise"
    /\ invocation.body = "return"
    /\ invocation.result.result = "returned"


\* C17: a wrapped node entered while the step at the cursor lies deeper than
\* the circuit breaker's maximum does not execute its body (the execute node
\* leaves the step pending, the evaluate node leaves the cursor), and the
\* session is in status error.
BreakerTripFatal ==
    /\ (/\ hist.op = "execute_step"
        /\ HasCurrentStep(AgentState)
        /\ get_current_step(AgentState).depth > BreakerMaxDepth) =>
           /\ get_current_step(AgentState).status = "pending"
           /\ status = "error"
    /\ (/\ hist.op = "evaluate_step"
        /\ hist.pre.index < Len(hist.pre.steps)
        /\ hist.pre.steps[hist.pre.index + 1].depth > BreakerMaxDepth) =>
           /\ current_step_index = hist.pre.index
           /\ status = "error"

\* C18: after a wrapped node has raised, the persisted state holds status
\* error with a message naming the node, as the error handler sets it, and
\* get_status reports this status and message.
NodeFailureReported ==
    hist.op = "node_raises" =>
        /\ status = "error"
        /\ Contains(error_message, <<pc>>)
        /\ get_status(AgentState).status = ErrorHandlerOnError(AgentState, pc).status
        /\ get_status(AgentState).error = ErrorHandlerOnError(AgentState, pc).error_message

----------------------------------------------------------------------------
(* Routing after the plan node and after the report node *)

\* the plan node has just returned
Planned == hist.op = "plan_generation"

\* an approval request for the plan exists and the run is about to suspend
\* or has suspended on it
PlanApprovalRequested ==
    /\ status = "plan_review"
    /\ pending_hitl_event.event_type = "plan_approval"

\* C21: right after the plan node, a failed planning (status error) leaves
\* no approval request and ends the run; otherwise a plan approval request
\* exists and the run heads for the suspend point exactly when plan approval
\* is required, and without it the run goes straight on to execute_step.
RoutingAfterPlanning ==
    Planned =>
        IF status = "error"
        THEN /\ pending_hitl_event = NoEvent
             /\ pc = "END" /\ ~running
        ELSE /\ PlanApprovalRequested <=> config.require_plan_approval
             /\ (pc = "create_plan_approval") <=> config.require_plan_approval
             /\ ~config.require_plan_approval => (pc = "execute_step" /\ running)

\* the report node has just returned a report
Reported == hist.op = "generate_report" /\ hist.input.ok /\ status # "error"

\* C22: right after the report node has produced a report the status is
\* completed exactly when report approval is not required; the approval
\* node leaves status final_review with a pending final_report_approval
\* event; and with report approval required the status completed is seen
\* only after the human has approved at final_review.
RoutingAfterReport ==
    /\ Reported => (status = "completed" <=> ~config.require_final_approval)
    /\ hist.op = "create_report_approval" =>
           /\ status = "final_review"
           /\ pending_hitl_event.event_type = "final_report_approval"
           /\ pc = "wait_node" /\ ~running
    /\ (config.require_final_approval /\ status = "completed") =>
           AtFinalReview("approve")

\* as C22 with the checkpoint the report node itself writes left aside
RoutingAfterReportSettled ==
    /\ (Reported /\ ~config.require_final_approval) => status = "completed"
    /\ (Reported /\ config.require_final_approval) => pc = "create_report_approval"
    /\ hist.op = "create_report_approval" =>
           /\ status = "final_review"
           /\ pending_hitl_event.event_type = "final_report_approval"
           /\ pc = "wait_node" /\ ~running
    /\ (config.require_final_approval /\ status = "completed" /\ ~Reported) =>
           AtFinalReview("approve")

----------------------------------------------------------------------------
(* Causes of the error status *)

\* the step just taken was a feedback with the given action
FeedbackWas(h, actions) ==
    /\ h.op \in {"submit_feedback", "dispatch_feedback"}
    /\ h.input.fb.action \in actions

\* the step just taken was the plan or report node failing as a whole
NodeFailed(h) ==
    /\ h.op \in {"plan_generation", "generate_report"}
    /\ ~h.input.ok

\* C23: the status turns to error only in a step that is a reject feedback
\* or a failing plan or report node: no approve, modify or unrecognised
\* feedback and no execute or evaluate step turns it to error.
OnlyTwoErrorCauses ==
    [][(status # "error" /\ status' = "error")
          => (FeedbackWas(hist', {"reject"}) \/ NodeFailed(hist'))]_vars

\* as C23 with the unrecognised action at the plan review counted as a reject
ErrorCausesWithOther ==
    [][(status # "error" /\ status' = "error")
          => \/ FeedbackWas(hist', {"reject"})
             \/ NodeFailed(hist')
             \/ /\ hist'.op = "dispatch_feedback"
                /\ hist'.input.fb.action = "other"
                /\ pending_hitl_event.event_type = "plan_approval"]_vars

----------------------------------------------------------------------------
(* The HITL coordinator on its own: approval requests and feedback applied *)
(* to any session state, events of unregistered types included           *)

\* event types a caller may pass; no handler is registered for the last
EventTypes == {"plan_approval", "final_report_approval", "custom_event"}

\* the event types create_approval_request maps to a review status
ApprovalTypes == {"plan_approval", "final_report_approval"}

\* an event that asks for no response (HITLEvent(requires_response=False))
NotifyEvent == [event_type |-> "custom_event", requires_response |-> FALSE]

HitlInit ==
    /\ status \in AgentStatus
    /\ research_plan \in {NoPlan, ResearchPlan(PlannedSteps(MaxRoots))}
    /\ current_step_index \in 0..1
    /\ search_results = {}
    /\ extracted_insights = << >>
    /\ final_report = "none"
    /\ pending_hitl_event \in {NoEvent, NotifyEvent} \cup {HITLEvent(t) : t \in EventTypes}
    /\ human_feedback = NoFeedback
    /\ error_message = NoMessage
    /\ config = [require_plan_approval |-> TRUE, require_final_approval |-> TRUE]
    /\ pc = "END"
    /\ running = FALSE
    /\ supersteps = 0
    /\ last_node = "start"
    /\ planner_input = "none"
    /\ executed_since_fb = FALSE
    /\ fb_count = 0
    /\ last_fb = [fb |-> NoFeedback, at |-> "none", via |-> "none", had_plan |-> FALSE]
    /\ invocation = NoInvocation
    /\ store = NoStore
    /\ tasks = NoTasks
    /\ hist = [op |-> "start", input |-> NoInput, pre |-> NoPre]

\* a coordinator call has returned state s, computed from the current state
HitlDone(op, input, s) ==
    /\ Persist(s)
    /\ hist' = [op |-> op, input |-> input, pre |-> AgentState]
    /\ UNCHANGED <<config, pc, running, supersteps, last_node, planner_input,
                   executed_since_fb, fb_count, last_fb, invocation, store, tasks>>

request_approval ==
    \E t \in EventTypes :
        HitlDone("create_approval_request", t, create_approval_request(AgentState, t))

feedback_handled ==
    \E fb \in Feedbacks :
        HitlDone("handle_feedback", fb, handle_feedback(AgentState, fb))

HitlNext == request_approval \/ feedback_handled

HitlSpec == HitlInit /\ [][HitlNext]_vars

\* the handler registered for an event type
RegisteredHandler(t, s, fb) ==
    IF t = "plan_approval" THEN handle_plan_feedback(s, fb)
    ELSE handle_report_feedback(s, fb)

\* C24: after handle_feedback on a state with a pending event: when a
\* handler is registered for the event's type the result is that handler's
\* result and no event is pending, whatever the action; when none is
\* registered no event is pending, human_feedback is the feedback as given,
\* and status, plan and cursor are those of the state before.
DispatchRule ==
    (hist.op = "handle_feedback" /\ hist.pre.pending_hitl_event # NoEvent) =>
        IF hist.pre.pending_hitl_event.event_type \in RegisteredHandlers
        THEN /\ AgentState = RegisteredHandler(hist.pre.pending_hitl_event.event_type,
                                               hist.pre, hist.input)
             /\ pending_hitl_event = NoEvent
        ELSE /\ pending_hitl_event = NoEvent
             /\ human_feedback = hist.input
             /\ status = hist.pre.status
             /\ research_plan = hist.pre.research_plan
             /\ current_step_index = hist.pre.current_step_index

\* a feedback met an event of a type no handler is registered for
DispatchFallbackWitness ==
    /\ hist.op = "handle_feedback"
    /\ hist.pre.pending_hitl_event = HITLEvent("custom_event")
    /\ hist.input.action = "approve"
    /\ human_feedback = hist.input

\* C25: after create_approval_request with plan_approval (final_report_
\* approval) the pending event is a new event of that type with
\* requires_response true and the status is plan_review (final_review),
\* whatever was pending before; a call after a call gives what the latter
\* call alone gives; should_interrupt is true exactly when an event with
\* requires_response is pending.
ApprovalRequestLatestWins ==
    /\ (hist.op = "create_approval_request" /\ hist.input \in ApprovalTypes) =>
           /\ pending_hitl_event = HITLEvent(hist.input)
           /\ pending_hitl_event.requires_response
           /\ status = (IF hist.input = "plan_approval" THEN "plan_review"
                        ELSE "final_review")
    /\ \A t1 \in EventTypes, t2 \in ApprovalTypes :
           create_approval_request(create_approval_request(AgentState, t1), t2)
               = create_approval_request(AgentState, t2)
    /\ should_interrupt(AgentState) <=>
           \E t \in EventTypes : pending_hitl_event = HITLEvent(t)

\* a request was made while an event of the other approval type was pending
ApprovalRequestWitness ==
    /\ hist.op = "create_approval_request"
    /\ hist.input = "final_report_approval"
    /\ hist.pre.pending_hitl_event = HITLEvent("plan_approval")
    /\ should_interrupt(AgentState)

\* an event that asks for no response is pending: no interrupt
NoInterruptWitness ==
    pending_hitl_event = NotifyEvent /\ ~should_interrupt(AgentState)

----------------------------------------------------------------------------
(* The session with its status route polled at any moment *)

\* GET /research/{session_id}/status for this session's id or for an id no
\* session was started under
status_requested ==
    /\ hist.op # "get_status"
    /\ \E known \in BOOLEAN : \E snapshot \in Snapshots(known, AgentState) :
          hist' = [op |-> "get_status",
                   input |-> [known |-> known, snapshot |-> snapshot],
                   pre |-> [state |-> AgentState,
                            response |-> get_status_route(snapshot)]]
    /\ UNCHANGED <<status, research_plan, current_step_index, search_results,
                   extracted_insights, final_report, pending_hitl_event,
                   human_feedback, error_message, config, pc, running,
                   supersteps, last_node, planner_input, executed_since_fb,
                   fb_count, last_fb, invocation, store, tasks>>

PolledNext == Next \/ status_requested

PolledSpec == Init /\ [][PolledNext]_vars

\* C26: a status request for an unknown session id is answered not-found
\* (404); one for a known id is answered 200 with the snapshot's status,
\* insights and error message, and the snapshot after the request is the
\* snapshot before it.
GetStatusOutcomes ==
    hist.op = "get_status" =>
        IF ~hist.input.known
        THEN hist.pre.response.code = 404
        ELSE /\ hist.pre.response.code = 200
             /\ hist.pre.response.body.status = status
             /\ hist.pre.response.body.extracted_insights = extracted_insights
             /\ hist.pre.response.body.error = error_message
             /\ hist.pre.state = AgentState

\* as C26 for known session ids only
GetStatusKnown ==
    (hist.op = "get_status" /\ hist.input.known) =>
        /\ hist.pre.response.code = 200
        /\ hist.pre.response.body.status = status
        /\ hist.pre.response.body.extracted_insights = extracted_insights
        /\ hist.pre.response.body.error = error_message
        /\ hist.pre.state = AgentState

\* what an unknown session id is answered: a server error, or the status of
\* a session that is planning
GetStatusUnknown ==
    (hist.op = "get_status" /\ ~hist.input.known) =>
        \/ hist.pre.response.code = 500
        \/ /\ hist.pre.response.code = 200
           /\ hist.pre.response.body.status = "planning"

----------------------------------------------------------------------------
(* The server: several sessions on one compiled graph and one checkpointer, *)
(* each astream run a task of its own; the feedback route as the code has   *)
(* it, callable at any moment of a session                                  *)

\* thread ids of the sessions started on the server
SessionIds == {"a", "b"}

\* create_research_state: the state a session starts from
create_research_state ==
    [status |-> "planning",
     research_plan |-> NoPlan,
     current_step_index |-> 0,
     search_results |-> {},
     extracted_insights |-> << >>,
     final_report |-> "none",
     pending_hitl_event |-> NoEvent,
     human_feedback |-> NoFeedback,
     error_message |-> NoMessage]

\* faulty variant: the checkpointer keeps one slot for every thread id
checkpoint_put_shared(st, thread_id, checkpoint) ==
    [sid \in DOMAIN st |-> checkpoint]

\* MemorySaver under config {"configurable": {"thread_id": session_id}}: a
\* checkpoint is written under the thread id of the run that writes it
checkpoint_put(st, thread_id, checkpoint) ==
    [st EXCEPT ![thread_id] = checkpoint]

\* replies the models and the gatherer give on the server
ServerInputs(node, outcomes) ==
    CASE node = "plan_generation" ->
             {[NoInput EXCEPT !.ok = ok, !.n = MaxRoots] : ok \in BOOLEAN}
      [] node = "execute_step" ->
             {[NoInput EXCEPT !.outcome = o] : o \in outcomes}
      [] node = "evaluate_step" -> {[NoInput EXCEPT !.verdict = "APPROVED"]}
      [] OTHER -> {NoInput}

\* the wrapped node function registered under the node's name
NodeResult(node, s, in) ==
    CASE node = "plan_generation" -> wrap_node(s, generate_plan(s, in.ok, in.n))
      [] node = "create_plan_approval" ->
             wrap_node(s, create_approval_request(s, "plan_approval"))
      [] node = "execute_step" -> wrap_node(s, execute_task_node(s, in.outcome))
      [] node = "evaluate_step" ->
             wrap_node(s, evaluate_task_result(s, in.verdict, in.n))
      [] node = "generate_report" -> wrap_node(s, generate_final_report(s, in.ok))
      [] node = "create_report_approval" ->
             wrap_node(s, create_approval_request(s, "final_report_approval"))
      [] OTHER -> s

\* the astream runs alive for a session
RunsOf(sid) == {t \in tasks : t.sid = sid}

\* POST /research for every id of ids: the first checkpoint of each
\* session and its background run
ServerInitOf(ids) ==
    /\ status = "planning"
    /\ research_plan = NoPlan
    /\ current_step_index = 0
    /\ search_results = {}
    /\ extracted_insights = << >>
    /\ final_report = "none"
    /\ pending_hitl_event = NoEvent
    /\ human_feedback = NoFeedback
    /\ error_message = NoMessage
    /\ config = [require_plan_approval |-> TRUE, require_final_approval |-> FALSE]
    /\ pc = "END"
    /\ running = FALSE
    /\ supersteps = 0
    /\ last_node = "start"
    /\ planner_input = "none"
    /\ executed_since_fb = FALSE
    /\ fb_count = 0
    /\ last_fb = [fb |-> NoFeedback, at |-> "none", via |-> "none", had_plan |-> FALSE]
    /\ invocation = NoInvocation
    /\ \E cfg \in [ids -> [require_plan_approval : BOOLEAN,
                           require_final_approval : BOOLEAN]] :
          store = [sid \in ids |->
                      [state |-> create_research_state,
                       config |-> cfg[sid],
                       last_node |-> "start",
                       next |-> "plan_generation"]]
    /\ tasks = {[sid |-> sid, run |-> 1, pc |-> "plan_generation",
                 state |-> create_research_state] : sid \in ids}
    /\ hist = [op |-> "start", input |-> [sid |-> "none"], pre |-> NoPre]

ServerUnchanged ==
    UNCHANGED <<status, research_plan, current_step_index, search_results,
                extracted_insights, final_report, pending_hitl_event,
                human_feedback, error_message, config, pc, running, supersteps,
                last_node, planner_input, executed_since_fb, last_fb,
                invocation>>

\* one superstep of a run: the node at the run's position works on the
\* run's own channel values and its result is written as the thread's newest
\* checkpoint; the run ends at END and before wait_node
RunNode(outcomes) ==
    \E t \in tasks : \E in \in ServerInputs(t.pc, outcomes) :
        LET s == NodeResult(t.pc, t.state, in)
            nxt == Successor(t.pc, s, store[t.sid].config)
        IN  /\ store' = checkpoint_put(store, t.sid,
                            [store[t.sid] EXCEPT !.state = s,
                                                 !.last_node = t.pc,
                                                 !.next = nxt])
            /\ tasks' = (tasks \ {t}) \cup
                            (IF nxt \in {"END", "wait_node"} THEN {}
                             ELSE {[t EXCEPT !.pc = nxt, !.state = s]})
            /\ hist' = [op |-> "run_node", input |-> [sid |-> t.sid, node |-> t.pc],
                        pre |-> NoPre]
            /\ UNCHANGED fb_count
            /\ ServerUnchanged

\* POST /research/{session_id}/feedback: aget_state, the full dump with the
\* feedback applied, aupdate_state, then asyncio.create_task(_resume_graph):
\* a run that starts from the updated checkpoint.  The route does not look
\* at whether a run of the session is alive.
PostFeedback(fbs) ==
    \E sid \in DOMAIN store : \E fb \in fbs :
        LET cp == store[sid]
            new == model_validate(submit_feedback_state(cp.state, fb))
            nxt == Successor(cp.last_node, new, cp.config)
        IN  /\ cp.last_node # "start"
            /\ fb_count < MaxFeedbacks
            /\ Cardinality(RunsOf(sid)) < MaxRuns
            /\ store' = checkpoint_put(store, sid,
                            [cp EXCEPT !.state = new, !.next = nxt])
            /\ fb_count' = fb_count + 1
            /\ tasks' = tasks \cup
                            (IF nxt = "END" THEN {}
                             ELSE {[sid |-> sid, run |-> fb_count + 2,
                                    pc |-> nxt, state |-> new]})
            /\ hist' = [op |-> "post_feedback", input |-> [sid |-> sid, fb |-> fb],
                        pre |-> NoPre]
            /\ ServerUnchanged

\* one session on the server, under every feedback and failing steps
run_node == RunNode({"ok", "gather_failed"})

post_feedback == PostFeedback(Feedbacks)

RaceNext == run_node \/ post_feedback

RaceSpec == ServerInitOf({"a"}) /\ [][RaceNext]_vars

\* the feedbacks that approve or reject
Decisions == {fb \in Feedbacks : fb.action \in {"approve", "reject"}}

\* two sessions on the server, their steps and feedbacks interleaved
session_node == RunNode({"ok"})

session_feedback == PostFeedback(Decisions)

ServerNext == session_node \/ session_feedback

ServerSpec == ServerInitOf(SessionIds) /\ [][ServerNext]_vars

\* C27: at most one run of a session is alive at any moment, and the state
\* a live run works on is the session's persisted state: no feedback
\* started a second run beside it or wrote the session's state under it.
SingleWriter ==
    \A sid \in DOMAIN store :
        /\ Cardinality(RunsOf(sid)) <= 1
        /\ \A t \in RunsOf(sid) : t.state = store[sid].state

\* C28: a node transition or a feedback submission of one session leaves
\* the persisted state and the runs of every other session as they were.
SessionIndependence ==
    [][\A other \in DOMAIN store \ {hist'.input.sid} :
           /\ store'[other] = store[other]
           /\ {t \in tasks' : t.sid = other} = RunsOf(other)]_vars

\* both sessions have moved, interleaved: one has executed a step of its
\* plan while the other, last to act, has just been rejected at its review
SessionIndependenceWitness ==
    /\ hist.op = "post_feedback" /\ hist.input.sid = "b"
    /\ hist.input.fb.action = "reject"
    /\ store["b"].state.status = "error"
    /\ store["b"].last_node = "create_plan_approval"
    /\ store["a"].state.status = "executing"
    /\ store["a"].last_node = "execute_step"

----------------------------------------------------------------------------
(* move_to_next_step on its own: called on a state with no plan or a plan  *)
(* of up to MaxPlanLen steps, the cursor anywhere up to one past the end   *)

MoveInit ==
    /\ status \in AgentStatus
    /\ research_plan \in {NoPlan} \cup {ResearchPlan(PlannedSteps(n)) : n \in 0..MaxPlanLen}
    /\ current_step_index \in 0..(MaxPlanLen + 1)
    /\ search_results = {}
    /\ extracted_insights = << >>
    /\ final_report = "none"
    /\ pending_hitl_event = NoEvent
    /\ human_feedback = NoFeedback
    /\ error_message = NoMessage
    /\ config = [require_plan_approval |-> TRUE, require_final_approval |-> FALSE]
    /\ pc = "END"
    /\ running = FALSE
    /\ supersteps = 0
    /\ last_node = "start"
    /\ planner_input = "none"
    /\ executed_since_fb = FALSE
    /\ fb_count = 0
    /\ last_fb = [fb |-> NoFeedback, at |-> "none", via |-> "none", had_plan |-> FALSE]
    /\ invocation = NoInvocation
    /\ store = NoStore
    /\ tasks = NoTasks
    /\ hist = [op |-> "start", input |-> NoInput, pre |-> NoPre]

moved_to_next_step ==
    /\ Persist(move_to_next_step(AgentState).state)
    /\ hist' = [op |-> "move_to_next_step", input |-> NoInput,
                pre |-> [state |-> AgentState,
                         result |-> move_to_next_step(AgentState).result]]
    /\ UNCHANGED <<config, pc, running, supersteps, last_node, planner_input,
                   executed_since_fb, fb_count, last_fb, invocation, store, tasks>>

MoveSpec == MoveInit /\ [][moved_to_next_step]_vars

\* C29: move_to_next_step returns True exactly when there is a plan and the
\* cursor was before the last step index, and then the cursor is one more;
\* otherwise the cursor is as before; nothing else of the state changes, and
\* the cursor is at len(steps) afterwards only if it was there before.
MoveToNextStep ==
    hist.op = "move_to_next_step" =>
        LET before == hist.pre.state
            last == Len(before.research_plan.steps) - 1
        IN  /\ hist.pre.result <=>
                   (before.research_plan.exists /\ before.current_step_index < last)
            /\ current_step_index =
                   (IF hist.pre.result THEN before.current_step_index + 1
                    ELSE before.current_step_index)
            /\ AgentState = [before EXCEPT !.current_step_index = current_step_index]
            /\ (research_plan.exists /\ current_step_index = Len(research_plan.steps))
                   => before.current_step_index = current_step_index

\* called at the last step of a plan of several steps: False, cursor kept
MoveAtLastStepWitness ==
    /\ hist.op = "move_to_next_step"
    /\ research_plan.exists /\ Len(research_plan.steps) > 1
    /\ hist.pre.state.current_step_index = Len(research_plan.steps) - 1
    /\ ~hist.pre.result
    /\ current_step_index = Len(research_plan.steps) - 1

\* called before the last step: True, cursor one further
MoveBeforeLastWitness ==
    /\ hist.op = "move_to_next_step"
    /\ hist.pre.result
    /\ current_step_index = hist.pre.state.current_step_index + 1

----------------------------------------------------------------------------
(* evaluate_task_result on its own: called on a state with no plan or a    *)
(* plan of shallow or deepest steps, with or without an insight for the    *)
(* first step, the cursor anywhere up to one past the end, under every     *)
(* judgment reply                                                          *)

EvalPlans ==
    {NoPlan} \cup
    {ResearchPlan([k \in 1..n |-> ResearchStep(<<k>>, d)]) :
         n \in 1..(MaxRoots + 1), d \in {DefaultDepth, MAX_RECURSION_DEPTH}}

EvalInsights ==
    {create_research_state.extracted_insights,
     add_insight(create_research_state,
                 ExtractedInsight(<<1>>, "insight")).extracted_insights}

EvalInit ==
    /\ status = "executing"
    /\ research_plan \in EvalPlans
    /\ current_step_index \in 0..(MaxRoots + 2)
    /\ search_results = {}
    /\ extracted_insights \in EvalInsights
    /\ final_report = "none"
    /\ pending_hitl_event = NoEvent
    /\ human_feedback = NoFeedback
    /\ error_message = NoMessage
    /\ config = [require_plan_approval |-> FALSE, require_final_approval |-> FALSE]
    /\ pc = "evaluate_step"
    /\ running = TRUE
    /\ supersteps = 0
    /\ last_node = "execute_step"
    /\ planner_input = "none"
    /\ executed_since_fb = TRUE
    /\ fb_count = 0
    /\ last_fb = [fb |-> NoFeedback, at |-> "none", via |-> "none", had_plan |-> FALSE]
    /\ invocation = NoInvocation
    /\ store = NoStore
    /\ tasks = NoTasks
    /\ hist = [op |-> "start", input |-> NoInput, pre |-> NoPre]

task_result_evaluated ==
    \E verdict \in Verdicts, n \in 0..MaxCands :
        /\ Persist(evaluate_task_result(AgentState, verdict, n))
        /\ hist' = [op |-> "evaluate_task_result",
                    input |-> [verdict |-> verdict, n |-> n],
                    pre |-> AgentState]
        /\ UNCHANGED <<config, pc, running, supersteps, last_node, planner_input,
                       executed_since_fb, fb_count, last_fb, invocation, store,
                       tasks>>

EvalSpec == EvalInit /\ [][task_result_evaluated]_vars

\* C30: an evaluation that started with a step at the cursor leaves the
\* cursor at the old cursor + 1, whatever the step's insight and depth and
\* whatever the judgment answered; one that started without a step at the
\* cursor leaves the state as it was.
EvaluateAdvancesOnce ==
    hist.op = "evaluate_task_result" =>
        IF HasCurrentStep(hist.pre)
        THEN current_step_index = hist.pre.current_step_index + 1
        ELSE AgentState = hist.pre

\* a step without an insight was evaluated and passed
EvaluateNoInsightWitness ==
    /\ hist.op = "evaluate_task_result"
    /\ HasCurrentStep(hist.pre)
    /\ get_current_step(hist.pre).step_id \notin DOMAIN hist.pre.extracted_insights
    /\ current_step_index = hist.pre.current_step_index + 1

\* the judgment raised and the step was passed
EvaluateExceptionWitness ==
    /\ hist.op = "evaluate_task_result"
    /\ HasCurrentStep(hist.pre)
    /\ get_current_step(hist.pre).step_id \in DOMAIN hist.pre.extracted_insights
    /\ get_current_step(hist.pre).depth < MAX_RECURSION_DEPTH
    /\ hist.input.verdict = "error"
    /\ current_step_index = hist.pre.current_step_index + 1

\* sub-steps were inserted and the cursor stands on the first of them
EvaluateExpandedWitness ==
    /\ hist.op = "evaluate_task_result"
    /\ HasCurrentStep(hist.pre)
    /\ hist.input.verdict = "NEEDS_MORE_INFO"
    /\ Len(research_plan.steps) = Len(hist.pre.research_plan.steps) + 2
    /\ current_step_index = hist.pre.current_step_index + 1

\* the function was called with the cursor past the end of the plan
EvaluateNoStepWitness ==
    /\ hist.op = "evaluate_task_result"
    /\ hist.pre.research_plan.exists
    /\ ~HasCurrentStep(hist.pre)
    /\ AgentState = hist.pre

----------------------------------------------------------------------------
(* Order of execution *)

\* the execute node is about to work on the step at the cursor
AboutToExecute == running /\ pc = "execute_step" /\ HasCurrentStep(AgentState)

\* C31: when the execute node takes the step at the cursor, every step
\* before the cursor has been executed and the step itself and every later
\* step are pending: steps run in list order, each at most once.  An
\* evaluation leaves the steps up to and including the cursor where they
\* were and keeps the later steps in their order behind the inserted ones.
PlanOrderExecution ==
    /\ AboutToExecute =>
           \A k \in 1..Len(research_plan.steps) :
               (research_plan.steps[k].status = "pending")
                   <=> (k >= current_step_index + 1)
    /\ EvaluatedAStep =>
           LET added == Len(research_plan.steps) - Len(hist.pre.steps)
               i == hist.pre.index
           IN  /\ added >= 0
               /\ SubSeq(research_plan.steps, 1, i + 1)
                      = SubSeq(hist.pre.steps, 1, i + 1)
               /\ SubSeq(research_plan.steps, i + 2 + added,
                         Len(research_plan.steps))
                      = SubSeq(hist.pre.steps, i + 2, Len(hist.pre.steps))

\* the second root step is executed after the sub-step of the first
PlanOrderWitness ==
    /\ hist.op = "execute_step"
    /\ Len(research_plan.steps) = 3
    /\ current_step_index = 2
    /\ research_plan.steps[2].step_id = <<1, 1>>
    /\ research_plan.steps[3].step_id = <<2>>
    /\ research_plan.steps[3].status = "completed"

----------------------------------------------------------------------------
(* Evaluation that does not judge *)
Judged(s) ==
    /\ HasCurrentStep(s)
    /\ ShouldEvaluate(get_current_step(s).step_id \in DOMAIN s.extracted_insights,
                      get_current_step(s).depth)

\* C32: when the judgment call raises or its reply cannot be parsed, the
\* evaluation adds no step and leaves the plan, the insights, the status,
\* the pending event and the error message as they were; only the cursor
\* moves, by one, and the status is not error afterwards.
EvaluationFailureApproves ==
    (/\ hist.op = "evaluate_task_result"
     /\ Judged(hist.pre)
     /\ hist.input.verdict = "error") =>
        /\ AgentState = [hist.pre EXCEPT
                             !.current_step_index = hist.pre.current_step_index + 1]
        /\ status # "error"
        /\ pending_hitl_event = NoEvent

\* the judgment of the first of two steps raised; the second step is next
EvaluationFailureWitness ==
    /\ hist.op = "evaluate_task_result"
    /\ Judged(hist.pre)
    /\ hist.input.verdict = "error"
    /\ hist.input.n = MaxCands
    /\ hist.pre.current_step_index = 0
    /\ Len(research_plan.steps) = 2
    /\ research_plan = hist.pre.research_plan
    /\ current_step_index = 1

\* C33: when the step at the cursor has no insight stored under its id, the
\* evaluation does not depend on any judgment: whatever the model would have
\* answered, no step is added and only the cursor moves, by one.
EvaluateMissingInsight ==
    (/\ hist.op = "evaluate_task_result"
     /\ HasCurrentStep(hist.pre)
     /\ get_current_step(hist.pre).step_id \notin DOMAIN hist.pre.extracted_insights) =>
        AgentState = [hist.pre EXCEPT
                         !.current_step_index = hist.pre.current_step_index + 1]

\* a step without an insight was passed although the model, had it been
\* asked, would have asked for sub-steps
EvaluateMissingInsightWitness ==
    /\ hist.op = "evaluate_task_result"
    /\ HasCurrentStep(hist.pre)
    /\ get_current_step(hist.pre).step_id \notin DOMAIN hist.pre.extracted_insights
    /\ get_current_step(hist.pre).depth < MAX_RECURSION_DEPTH
    /\ hist.input.verdict = "NEEDS_MORE_INFO"
    /\ hist.input.n = MaxCands
    /\ research_plan = hist.pre.research_plan
    /\ current_step_index = hist.pre.current_step_index + 1

----------------------------------------------------------------------------
(* The execute node on its own: one call of execute_task_node on a state
   the run can hand it, with every outcome of the gather and process phases *)

ExecStatuses == {"plan_review", "executing"}

AllExecOutcomes == ExecOutcomes \cup {"gather_raised_blank"}

ExecInit ==
    /\ status \in ExecStatuses
    /\ research_plan \in EvalPlans
    /\ current_step_index \in 0..(MaxRoots + 2)
    /\ search_results = {}
    /\ extracted_insights \in EvalInsights
    /\ final_report = "none"
    /\ pending_hitl_event = NoEvent
    /\ human_feedback = NoFeedback
    /\ error_message = NoMessage
    /\ config = [require_plan_approval |-> FALSE, require_final_approval |-> FALSE]
    /\ pc = "execute_step"
    /\ running = TRUE
    /\ supersteps = 0
    /\ last_node = "create_plan_approval"
    /\ planner_input = "none"
    /\ executed_since_fb = TRUE
    /\ fb_count = 0
    /\ last_fb = [fb |-> NoFeedback, at |-> "none", via |-> "none", had_plan |-> FALSE]
    /\ invocation = NoInvocation
    /\ store = NoStore
    /\ tasks = NoTasks
    /\ hist = [op |-> "start", input |-> NoInput, pre |-> NoPre]

task_executed ==
    \E outcome \in AllExecOutcomes :
        /\ Persist(execute_task_node(AgentState, outcome))
        /\ hist' = [op |-> "execute_task_node",
                    input |-> [outcome |-> outcome],
                    pre |-> AgentState]
        /\ UNCHANGED <<config, pc, running, supersteps, last_node, planner_input,
                       executed_since_fb, fb_count, last_fb, invocation, store,
                       tasks>>

ExecSpec == ExecInit /\ [][task_executed]_vars

\* the execute node has just run on a step that was at the cursor
ExecutedAStep == hist.op = "execute_task_node" /\ HasCurrentStep(hist.pre)

\* every step but the one at the cursor is as it was before the execution
OtherStepsKept ==
    /\ Len(research_plan.steps) = Len(hist.pre.research_plan.steps)
    /\ \A k \in 1..Len(research_plan.steps) :
           k # current_step_index + 1 =>
               research_plan.steps[k] = hist.pre.research_plan.steps[k]

\* C34: when the gather phase succeeds without usable data, the node
\* returns with the step at the cursor failed and a message on it; nothing
\* is processed: the insights and the search results are what they were
\* before, the other steps and the cursor are untouched, and the session is
\* executing, not in error.
EmptyGatherShortCircuit ==
    (ExecutedAStep /\ hist.input.outcome = "no_results") =>
        /\ get_current_step(AgentState).status = "failed"
        /\ get_current_step(AgentState).error_message # << >>
        /\ extracted_insights = hist.pre.extracted_insights
        /\ search_results = hist.pre.search_results
        /\ current_step_index = hist.pre.current_step_index
        /\ OtherStepsKept
        /\ status = "executing"
        /\ error_message = hist.pre.error_message

\* the gather of a pending step that has no insight came back empty
EmptyGatherWitness ==
    /\ ExecutedAStep /\ hist.input.outcome = "no_results"
    /\ get_current_step(hist.pre).status = "pending"
    /\ get_current_step(hist.pre).step_id \notin DOMAIN hist.pre.extracted_insights
    /\ get_current_step(AgentState).status = "failed"
    /\ extracted_insights = << >>

\* C40: when the execute node returns for a step at the cursor, that step is
\* completed or failed; it is completed only when this execution stored an
\* insight under its id; a failed step carries an error message; every
\* other step, the steps behind the cursor included, is as it was.
StepStatusAfterExecution ==
    ExecutedAStep =>
        LET cur == get_current_step(AgentState)
        IN  /\ cur.status \in {"completed", "failed"}
            /\ cur.status = "completed" =>
                   /\ hist.input.outcome = "ok"
                   /\ cur.step_id \in DOMAIN extracted_insights
            /\ cur.status = "failed" => cur.error_message # << >>
            /\ OtherStepsKept

\* the same with the error message required only when the failure came
\* with a text
StepStatusAfterExecutionWithText ==
    ExecutedAStep =>
        LET cur == get_current_step(AgentState)
        IN  /\ cur.status \in {"completed", "failed"}
            /\ cur.status = "completed" =>
                   /\ hist.input.outcome = "ok"
                   /\ cur.step_id \in DOMAIN extracted_insights
            /\ (cur.status = "failed" /\ hist.input.outcome # "gather_raised_blank")
                   => cur.error_message # << >>
            /\ OtherStepsKept

----------------------------------------------------------------------------
(* The earlier graph, src/src/deep_research_agent: execute_step loops on
   itself through check_step_completion, without an evaluate node *)

LegacyOutcomes == {"ok", "search_raised", "no_results", "extract_raised"}

\* nodes/search_execution.py execute_search_step; the outcome says how far
\* the search and the extraction got
execute_search_step(s, outcome) ==
    IF ~HasCurrentStep(s) THEN s
    ELSE LET k == s.current_step_index + 1
             step_id == get_current_step(s).step_id
             s1 == [s EXCEPT !.research_plan.steps[k].status = "executing",
                             !.status = "executing"]
             failed(x) == [x EXCEPT !.research_plan.steps[k].status = "failed",
                                    !.research_plan.steps[k].error_message = ErrorText]
             advanced(x) == [x EXCEPT !.current_step_index = @ + 1]
         IN  CASE outcome = "search_raised" -> advanced(failed(s1))
               [] outcome = "no_results" -> failed(s1)
               [] outcome = "extract_raised" ->
                      advanced(failed(add_search_result(s1, step_id)))
               [] OTHER ->
                      advanced([add_insight(add_search_result(s1, step_id),
                                            ExtractedInsight(step_id, "insight"))
                                   EXCEPT !.research_plan.steps[k].status = "completed"])

\* graph.py check_step_completion of the earlier graph
legacy_check_step_completion(s) ==
    IF s.status = "error" THEN "END"
    ELSE IF ~s.research_plan.exists THEN "END"
    ELSE IF s.current_step_index < Len(s.research_plan.steps) THEN "execute_step"
    ELSE "generate_report"

LegacyInit ==
    /\ status \in ExecStatuses
    /\ research_plan \in EvalPlans
    /\ current_step_index = 0
    /\ search_results = {}
    /\ extracted_insights = create_research_state.extracted_insights
    /\ final_report = "none"
    /\ pending_hitl_event = NoEvent
    /\ human_feedback = NoFeedback
    /\ error_message = NoMessage
    /\ config = [require_plan_approval |-> FALSE, require_final_approval |-> FALSE]
    /\ pc = "execute_step"
    /\ running = TRUE
    /\ supersteps = 0
    /\ last_node = "plan_generation"
    /\ planner_input = "none"
    /\ executed_since_fb = TRUE
    /\ fb_count = 0
    /\ last_fb = [fb |-> NoFeedback, at |-> "none", via |-> "none", had_plan |-> FALSE]
    /\ invocation = NoInvocation
    /\ store = NoStore
    /\ tasks = NoTasks
    /\ hist = [op |-> "start", input |-> NoInput, pre |-> NoPre]

\* one superstep of the loop: the node, the checkpoint, the conditional edge
search_step_executed ==
    /\ running /\ pc = "execute_step"
    /\ \E outcome \in LegacyOutcomes :
          LET s == wrap_node(AgentState, execute_search_step(AgentState, outcome))
          IN  /\ Persist(s)
              /\ pc' = legacy_check_step_completion(s)
              /\ running' = /\ legacy_check_step_completion(s) = "execute_step"
                            /\ supersteps + 1 < RecursionLimit
              /\ hist' = [op |-> "execute_search_step",
                          input |-> [outcome |-> outcome],
                          pre |-> AgentState]
    /\ supersteps' = supersteps + 1
    /\ last_node' = "execute_step"
    /\ UNCHANGED <<config, planner_input, executed_since_fb, fb_count, last_fb,
                   invocation, store, tasks>>

LegacySpec == LegacyInit /\ [][search_step_executed]_vars

\* C35: whenever execute_search_step ran with a step at the cursor, the
\* cursor stands one past where it stood, whatever became of the search and
\* of the extraction, so the loop through check_step_completion never comes
\* back to the same step.
LegacyAlwaysAdvances ==
    (hist.op = "execute_search_step" /\ HasCurrentStep(hist.pre)) =>
        current_step_index = hist.pre.current_step_index + 1

\* the same for every return path but the one without search results
LegacyAdvancesWithResults ==
    (/\ hist.op = "execute_search_step" /\ HasCurrentStep(hist.pre)
     /\ hist.input.outcome # "no_results") =>
        current_step_index = hist.pre.current_step_index + 1

\* the run was cut at the superstep limit still executing its first step
LegacyLoopWitness ==
    /\ hist.op = "execute_search_step"
    /\ supersteps = RecursionLimit
    /\ ~running /\ pc = "execute_step"
    /\ current_step_index = 0

----------------------------------------------------------------------------
(* Feedback and the pending event *)

\* C36: handle_feedback on a state without a pending event returns the
\* state as it was: status, plan, cursor, human_feedback, error_message and
\* every other field are those of the state before, whatever the feedback,
\* so no handler and no default handling has run.
FeedbackWithoutEventNoOp ==
    (hist.op = "handle_feedback" /\ hist.pre.pending_hitl_event = NoEvent) =>
        AgentState = hist.pre

\* a rejection met a session in plan review that had a plan and no pending
\* event, and the session is still in plan review
FeedbackWithoutEventWitness ==
    /\ hist.op = "handle_feedback"
    /\ hist.pre.pending_hitl_event = NoEvent
    /\ hist.pre.status = "plan_review"
    /\ hist.pre.research_plan.exists
    /\ hist.input.action = "reject"
    /\ status = "plan_review"
    /\ human_feedback = NoFeedback


\* a feedback was handled on a session paused at final_review
ReportFeedbackHandled ==
    /\ hist.op = "handle_feedback"
    /\ hist.pre.status = "final_review"
    /\ hist.pre.pending_hitl_event # NoEvent
    /\ hist.pre.pending_hitl_event.event_type = "final_report_approval"

\* C37: after handle_report_feedback has handled a feedback, whatever its
\* action, on a session paused at final_review, the session is completed or
\* in error, or an event is still pending; it is not left at final_review
\* without a pending event.
NoLimboAfterReportFeedback ==
    ReportFeedbackHandled =>
        \/ status \in {"completed", "error"}
        \/ pending_hitl_event # NoEvent

\* the same for the feedbacks that approve or reject
NoLimboAfterReportDecision ==
    (ReportFeedbackHandled /\ hist.input.action \in {"approve", "reject"}) =>
        /\ status \in {"completed", "error"}
        /\ pending_hitl_event = NoEvent

\* a run that was parked at final_review has ended there: its feedback went
\* through the coordinator, no event is pending and the graph is at END
ReportLimboReached ==
    /\ last_fb.via = "dispatch_feedback" /\ last_fb.at = "final_review"
    /\ status = "final_review"
    /\ pending_hitl_event = NoEvent
    /\ ~running /\ pc = "END"

----------------------------------------------------------------------------
(* Depth of the steps and the circuit breaker *)

\* the execute node when gathering and processing succeed
step_completed == ExecuteWith("ok")

\* the graph with its expansion, and structured plan modifications through
\* the HITL coordinator as the only feedback
DepthNext ==
    \/ plan_generation
    \/ create_plan_approval
    \/ step_completed
    \/ evaluate_step
    \/ generate_report
    \/ create_report_approval
    \/ wait_node
    \/ dispatch_deep_feedback

DepthSpec == Init /\ [][DepthNext]_vars

\* the step was supplied by a structured modification deeper than the
\* evaluator ever goes
SuppliedDeep(step) ==
    \E j \in DOMAIN DeepSteps :
        /\ step.step_id = DeepSteps[j].step_id
        /\ step.depth = DeepSteps[j].depth

----------------------------------------------------------------------------
(* Step ids under expansion: the execute/evaluate loop on plans whose root
   ids are whatever the planner's reply carried.  An id is the sequence of
   its parts: <<1>> is a root id, <<1, 2>> is that id followed by .sub2 *)

MaxIdPlanLen == 4

\* step ids a planner reply may carry, ids that look like sub-step ids
\* included
RootIds == {<<1>>, <<2>>, <<1, 1>>, <<1, 1, 1>>}

IdPlans ==
    {ResearchPlan([k \in 1..n |-> ResearchStep(ids[k], DefaultDepth)]) :
         n \in 1..(MaxRoots + 1), ids \in [1..(MaxRoots + 1) -> RootIds]}

IdInit ==
    /\ status = "plan_review"
    /\ research_plan \in IdPlans
    /\ current_step_index = 0
    /\ search_results = {}
    /\ extracted_insights = create_research_state.extracted_insights
    /\ final_report = "none"
    /\ pending_hitl_event = NoEvent
    /\ human_feedback = NoFeedback
    /\ error_message = NoMessage
    /\ config = [require_plan_approval |-> FALSE, require_final_approval |-> FALSE]
    /\ pc = "execute_step"
    /\ running = TRUE
    /\ supersteps = 1
    /\ last_node = "plan_generation"
    /\ planner_input = "none"
    /\ executed_since_fb = FALSE
    /\ fb_count = 0
    /\ last_fb = [fb |-> NoFeedback, at |-> "none", via |-> "none", had_plan |-> FALSE]
    /\ invocation = NoInvocation
    /\ store = NoStore
    /\ tasks = NoTasks
    /\ hist = [op |-> "plan_generation", input |-> NoInput, pre |-> NoPre]

step_evaluated ==
    \E verdict \in Verdicts, n \in 0..MaxCands :
        /\ Len(research_plan.steps) + n <= MaxIdPlanLen
        /\ EvaluateWith(verdict, n)

IdNext == step_completed \/ step_evaluated

IdSpec == IdInit /\ [][IdNext]_vars

\* the planner's steps: the steps of depth 0
IsRoot(k) == research_plan.steps[k].depth = DefaultDepth

\* id a is id b followed by one .subN
SubIdOf(a, b) == Len(a) = Len(b) + 1 /\ SubSeq(a, 1, Len(b)) = b

\* id a is id b followed by one or more .subN
DescendantIdOf(a, b) == Len(a) > Len(b) /\ SubSeq(a, 1, Len(b)) = b

RootIdsDistinct ==
    \A i, j \in 1..Len(research_plan.steps) :
        (IsRoot(i) /\ IsRoot(j) /\ i # j)
            => research_plan.steps[i].step_id # research_plan.steps[j].step_id

StepIdsDistinct ==
    \A i, j \in 1..Len(research_plan.steps) :
        i # j => research_plan.steps[i].step_id # research_plan.steps[j].step_id

\* C39: when the root ids are pairwise distinct and no root id is another
\* root id followed by .subN, the ids of all steps in the plan are pairwise
\* distinct after every execute and evaluate transition.
StepIdsUnique ==
    (/\ RootIdsDistinct
     /\ \A i, j \in 1..Len(research_plan.steps) :
            (IsRoot(i) /\ IsRoot(j))
                => ~SubIdOf(research_plan.steps[i].step_id,
                            research_plan.steps[j].step_id))
        => StepIdsDistinct

\* C39 as it holds: when the root ids are pairwise distinct and no root id
\* is another root id followed by one or more .subN, the ids of all steps
\* in the plan are pairwise distinct after every execute and evaluate
\* transition.
StepIdsUniqueNoDescendantRoot ==
    (/\ RootIdsDistinct
     /\ \A i, j \in 1..Len(research_plan.steps) :
            (IsRoot(i) /\ IsRoot(j))
                => ~DescendantIdOf(research_plan.steps[i].step_id,
                                   research_plan.steps[j].step_id))
        => StepIdsDistinct

\* two roots with unrelated ids, the first expanded twice down its branch:
\* four steps with four ids, each executed step with its own insight
StepIdsUniqueWitness ==
    /\ hist.op = "execute_step"
    /\ Len(research_plan.steps) = MaxIdPlanLen
    /\ research_plan.steps[1].step_id = <<1>>
    /\ research_plan.steps[2].step_id = <<1, 1>>
    /\ research_plan.steps[3].step_id = <<1, 1, 1>>
    /\ research_plan.steps[4].step_id = <<2>>
    /\ IsRoot(4)
    /\ current_step_index = 3
    /\ DOMAIN extracted_insights = {<<1>>, <<1, 1>>, <<1, 1, 1>>, <<2>>}

====
